---- MODULE Spec2Model ----
(***************************************************************************)
(* NoteVisualizer (src/visualizer.js, second snapshot, lines 476-1423):    *)
(* the microphone life cycle (toggleMicrophone / start / stop), the        *)
(* requestAnimationFrame analysis loop (analyze) and the detection         *)
(* pipeline it runs on every pass: detectAllFrequencies (peak picking,     *)
(* parabolic interpolation, harmonic filter), smoothFrequencies,           *)
(* frequencyToNote, detectChord / identifyChord, addNoteToHistory and      *)
(* trackWaveform; and of the first snapshot (lines 3-467) the same life    *)
(* cycle with recording (MediaRecorder, processRecording) and playback     *)
(* (playRecording / stopPlayback), detectPitch and updatePitchDeviation.   *)
(*                                                                         *)
(* Units.  JavaScript numbers are modelled by integers:                    *)
(*   - a frequency is an integer number of 1/FreqScale Hz (1/64 Hz), so    *)
(*     that a bin centre i * nyquist / bufferLength is exact; quotients    *)
(*     (the interpolation offset, the averages) are floored;               *)
(*   - a time is an integer number of milliseconds (Date.now());           *)
(*     timestamps, which the code divides by 1000, stay in milliseconds;   *)
(*   - a volume is the sum of the magnitudes (the code divides it by       *)
(*     bufferLength);                                                      *)
(*   - a confidence is a percentage;                                       *)
(*   - a text (a JavaScript string) is a sequence of chunks: a pitch-class *)
(*     name, a single decimal digit, or a literal of the source.           *)
(* null is 0 where the code only tests it with `!x`.                       *)
(* A number that may leave the finite ones (a division by zero, the        *)
(* logarithm of a non-positive number) is a record [kind, value].          *)
(* Of the DOM only the pitch hint and the disabled state of the record and *)
(* playback buttons are modelled; the canvases and the reference tone are  *)
(* not, nor is the audio context in the second snapshot, where only they   *)
(* and the analyser use it.                                                *)
(***************************************************************************)
EXTENDS Integers, Sequences, FiniteSets, TLC

VARIABLES
    isRunning,          \* this.isRunning
    pendingStarts,      \* start() calls suspended at `await getUserMedia`
    scheduled,          \* requestAnimationFrame callbacks `() => this.analyze()` not yet run
    now,                \* Date.now()
    dataArray,          \* this.dataArray: bin -> magnitude, 0 where not in the domain
    pickedPeaks,        \* the array `peaks` of the last call of detectAllFrequencies, before the sort
    returnedFundamentals, \* what the last call of detectAllFrequencies returned
    smoothingBuffer,    \* this.smoothingBuffer
    detectedFrequencies, \* analyze: what the last call of detectPitch returned
    noteHistory,        \* this.noteHistory
    historyStartTime,   \* this.historyStartTime (0 is null)
    waveformHistory,    \* this.waveformHistory
    activeNotes,        \* this.activeNotes
    allDetectedNotes,   \* this.allDetectedNotes
    detectedChords,     \* this.detectedChords
    lastChordTime,      \* this.lastChordTime
    targetFrequency,    \* this.targetFrequency
    tickLog,            \* history variable: one record per completed pass of analyze
    detectedPitch,      \* first snapshot: what the last call of detectPitch returned, and its maxIdx
    mappedNote,         \* what the last call of frequencyToNote from outside analyze returned
    currentCents,       \* this.currentCents
    pitchHint,          \* this.pitchHint.innerHTML: the hint text and its arrows ("" when empty)
    audioContext,       \* this.audioContext: "none" (null), "running" or "closed"
    stream,             \* this.stream is defined: it is then the stream the last resumed
                        \* start() obtained
    tracksLive,         \* the tracks of the stream the last resumed start() obtained are live
    mediaRecorder,      \* this.mediaRecorder: an index of recorders, 0 when null
    recorders,          \* the state of each MediaRecorder: "inactive" or "recording"
    isRecording,        \* this.isRecording
    recordBtnDisabled,  \* this.recordBtn.disabled
    processing,         \* calls of processRecording suspended at `await blob.arrayBuffer()`
    decoding,           \* calls of processRecording suspended at `await decodeAudioData`
    audioBuffer,        \* this.audioBuffer is not null
    playbackBtnDisabled, \* this.playbackBtn.disabled
    isPlaying,          \* this.isPlaying
    sourceNode,         \* this.sourceNode: an index of sources, 0 when null
    sources,            \* the buffer sources created: their state, and whether their
                        \* context is this.audioContext
    lastCall            \* history variable, kept by ToggleSpec: which of start() and
                        \* stop() toggleMicrophone called last ("none" before the first)

\* The detection state: what analyze() reads and writes.
detection == <<now, dataArray, pickedPeaks, returnedFundamentals, smoothingBuffer,
               detectedFrequencies, noteHistory, historyStartTime,
               waveformHistory, activeNotes, allDetectedNotes, detectedChords,
               lastChordTime, targetFrequency, tickLog>>

\* What the calls of single methods, outside the analysis loop, write.
standalone == <<detectedPitch, mappedNote>>

\* What updatePitchDeviation writes.
display == <<currentCents, pitchHint>>

\* The audio context and the microphone streams.
microphone == <<audioContext, stream, tracksLive>>

\* What recording writes (first snapshot).
recording == <<mediaRecorder, recorders, isRecording, recordBtnDisabled, processing,
               decoding, audioBuffer, playbackBtnDisabled>>

\* What playback writes (first snapshot).
playback == <<isPlaying, sourceNode, sources>>

vars == <<isRunning, pendingStarts, scheduled, detection, standalone, display,
          microphone, recording, playback, lastCall>>

(***************************************************************************)
(* Bounds of the model.                                                    *)
(***************************************************************************)
MaxTicks == 3
MaxPending == 2
MaxScheduled == 2
Epoch == 1000
MaxSpikes == 3

\* Time that passes before a pass of analyze runs (ms).
TimeSteps == {100, 500}

(***************************************************************************)
(* Program constants.                                                      *)
(***************************************************************************)
FftSize == 8192
SampleRate == 48000
ToleranceDivisor == 10
MinFreq == 80
MaxFreq == 2000
Threshold == 20
PeakWindow == 5
MaxFundamentals == 5
SmoothingBufferSize == 5
MaxHistoryDuration == 10
ChordInterval == 500
MinNoteDuration == 100
MinConfidence == 50

BufferLength == FftSize \div 2
Nyquist == SampleRate \div 2

RECURSIVE Gcd(_, _)
Gcd(a, b) == IF b = 0 THEN a ELSE Gcd(b, a % b)

\* The unit of frequency is 1/FreqScale Hz: the least scale at which the
\* bin centres i * nyquist / bufferLength are integers.
FreqScale == BufferLength \div Gcd(Nyquist, BufferLength)
MinIndex == (MinFreq * BufferLength) \div Nyquist
MaxIndexBound == (MaxFreq * BufferLength) \div Nyquist
BinWidth == (Nyquist * FreqScale) \div BufferLength

NoteStrings == <<"C", "C#", "D", "D#", "E", "F", "F#", "G", "G#", "A", "A#", "B">>

Abs(x) == IF x < 0 THEN -x ELSE x

\* floor(a / b) for b > 0 (\div floors in TLA+).
FloorDiv(a, b) == a \div b

\* Math.round(a / b) for b > 0: floor(a / b + 0.5).
RoundDiv(a, b) == (2 * a + b) \div (2 * b)

(***************************************************************************)
(* detectAllFrequencies: peak picking.                                     *)
(***************************************************************************)
DataAt(d, j) == IF j \in DOMAIN d THEN d[j] ELSE 0

IsLocalMax(d, i) ==
    \A j \in (i - PeakWindow)..(i + PeakWindow) : j # i => DataAt(d, j) < DataAt(d, i)

\* The frequency of bin i after parabolic interpolation.
PeakFrequency(d, i) ==
    LET y1 == DataAt(d, i - 1)
        y2 == DataAt(d, i)
        y3 == DataAt(d, i + 1)
        den == 2 * y2 - y1 - y3
    IN  IF i > 0 /\ i < BufferLength - 1 /\ den # 0
        THEN i * BinWidth + FloorDiv(BinWidth * (y3 - y1), 2 * den)
        ELSE i * BinWidth

PeakBins(d) ==
    {i \in (MinIndex + PeakWindow)..(MaxIndexBound - PeakWindow - 1) :
        DataAt(d, i) >= Threshold /\ IsLocalMax(d, i)}

RECURSIVE PeaksOfBins(_, _)
PeaksOfBins(d, bins) ==
    IF bins = {} THEN <<>>
    ELSE LET i == CHOOSE b \in bins : \A c \in bins : b <= c
         IN  <<[frequency |-> PeakFrequency(d, i), amplitude |-> DataAt(d, i), index |-> i]>>
             \o PeaksOfBins(d, bins \ {i})

\* The peaks in the order the loop pushes them (ascending bin).
FindPeaks(d) == PeaksOfBins(d, PeakBins(d))

\* peaks.sort((a, b) => b.amplitude - a.amplitude): stable, loudest first.
RECURSIVE SortByAmplitude(_)
SortByAmplitude(s) ==
    IF Len(s) <= 1 THEN s
    ELSE LET rest == SortByAmplitude(SubSeq(s, 1, Len(s) - 1))
             p == s[Len(s)]
             k == Cardinality({i \in 1..Len(rest) : rest[i].amplitude >= p.amplitude})
         IN  SubSeq(rest, 1, k) \o <<p>> \o SubSeq(rest, k + 1, Len(rest))

(***************************************************************************)
(* detectAllFrequencies: harmonic filter.                                  *)
(***************************************************************************)
\* The mutation `nearestHarmonic > 2`.
IsHarmonicOfSkipsOctave(pf, ff) ==
    LET nearestHarmonic == RoundDiv(pf, ff)
    IN  nearestHarmonic > 2 /\ ToleranceDivisor * Abs(pf - nearestHarmonic * ff) < ff

\* nearestHarmonic >= 2 && Math.abs(ratio - nearestHarmonic) < 0.1, with
\* ratio = pf / ff and 0.1 = 1 / ToleranceDivisor.
IsHarmonicOf(pf, ff) ==
    LET nearestHarmonic == RoundDiv(pf, ff)
    IN  nearestHarmonic >= 2 /\ ToleranceDivisor * Abs(pf - nearestHarmonic * ff) < ff

\* The mutation `if (fundamentals.length > 5) break`.
RECURSIVE FilterFromBreaksLate(_, _, _)
FilterFromBreaksLate(peaks, i, fundamentals) ==
    IF i > Len(peaks) THEN fundamentals
    ELSE LET peak == peaks[i]
             isHarmonic == \E j \in 1..Len(fundamentals) :
                               IsHarmonicOf(peak.frequency, fundamentals[j].frequency)
             next == IF isHarmonic THEN fundamentals ELSE Append(fundamentals, peak)
         IN  IF Len(next) > MaxFundamentals THEN next
             ELSE FilterFromBreaksLate(peaks, i + 1, next)

RECURSIVE FilterFrom(_, _, _)
FilterFrom(peaks, i, fundamentals) ==
    IF i > Len(peaks) THEN fundamentals
    ELSE LET peak == peaks[i]
             isHarmonic == \E j \in 1..Len(fundamentals) :
                               IsHarmonicOf(peak.frequency, fundamentals[j].frequency)
             next == IF isHarmonic THEN fundamentals ELSE Append(fundamentals, peak)
         IN  IF Len(next) >= MaxFundamentals THEN next
             ELSE FilterFrom(peaks, i + 1, next)

HarmonicFilter(peaks) == FilterFrom(peaks, 1, <<>>)

DetectAllFrequencies(d) == HarmonicFilter(SortByAmplitude(FindPeaks(d)))

(***************************************************************************)
(* Text helpers.                                                           *)
(***************************************************************************)
DigitChars == <<"0", "1", "2", "3", "4", "5", "6", "7", "8", "9">>

IsDigit(c) == \E k \in 1..10 : DigitChars[k] = c

\* The decimal digits of n >= 0, one chunk per digit.
RECURSIVE Digits(_)
Digits(n) ==
    IF n < 10 THEN <<DigitChars[n + 1]>>
    ELSE Digits(n \div 10) \o <<DigitChars[(n % 10) + 1]>>

\* String(n) for an integer n.
NumberText(n) == IF n < 0 THEN <<"-">> \o Digits(-n) ELSE Digits(n)

\* texts.join(sep)
RECURSIVE Join(_, _)
Join(texts, sep) ==
    IF Len(texts) = 0 THEN <<>>
    ELSE IF Len(texts) = 1 THEN texts[1]
    ELSE texts[1] \o <<sep>> \o Join(Tail(texts), sep)

\* name.replace(/\d+/, ''): the first maximal run of digits is removed.
RemoveFirstNumber(t) ==
    IF \A k \in 1..Len(t) : ~IsDigit(t[k]) THEN t
    ELSE LET first == CHOOSE k \in 1..Len(t) :
                          IsDigit(t[k]) /\ \A h \in 1..(k - 1) : ~IsDigit(t[h])
             last == CHOOSE k \in first..Len(t) :
                         /\ \A h \in first..k : IsDigit(t[h])
                         /\ (k = Len(t) \/ ~IsDigit(t[k + 1]))
         IN  SubSeq(t, 1, first - 1) \o SubSeq(t, last + 1, Len(t))

(***************************************************************************)
(* JavaScript numbers that may leave the finite ones.                      *)
(***************************************************************************)
Finite(v) == [kind |-> "finite", value |-> v]

NaN == [kind |-> "NaN", value |-> 0]

PositiveInfinity == [kind |-> "Infinity", value |-> 0]

NegativeInfinity == [kind |-> "-Infinity", value |-> 0]

\* num / den for integers num and den = 0.
DivideByZero(num) ==
    IF num > 0 THEN PositiveInfinity ELSE IF num < 0 THEN NegativeInfinity ELSE NaN

\* floor(num / den) for den # 0.
FloorQuotient(num, den) == IF den > 0 THEN FloorDiv(num, den) ELSE FloorDiv(-num, -den)

(***************************************************************************)
(* frequencyToNote.                                                        *)
(***************************************************************************)
\* noteNum = 12 * (Math.log(frequency / 440) / Math.log(2)) is a number of
\* 1/NoteScale semitones (half cents), floored: Math.round(noteNum) and
\* Math.round((noteNum - noteNumRounded) * 100) are exact on it.
A4 == 440
NoteScale == 200
BaseOctave == 6

\* A4 raised by BaseOctave octaves, in 1/FreqScale Hz: the octave
\* [BaseA, 2 * BaseA) in which the logarithm is tabulated.
BaseA == A4 * FreqScale * (2 ^ BaseOctave)

\* HalfCentStart[k] is the least g with 12 * log2(g / BaseA) >= (k - 1) / NoteScale.
HalfCentStart ==
    <<1802240, 1802761, 1803282, 1803803, 1804324, 1804845, 1805366, 1805888,
      1806409, 1806931, 1807453, 1807975, 1808497, 1809020, 1809542, 1810065,
      1810588, 1811111, 1811634, 1812157, 1812681, 1813204, 1813728, 1814252,
      1814776, 1815300, 1815825, 1816349, 1816874, 1817399, 1817924, 1818449,
      1818974, 1819499, 1820025, 1820551, 1821077, 1821603, 1822129, 1822655,
      1823182, 1823708, 1824235, 1824762, 1825289, 1825816, 1826344, 1826871,
      1827399, 1827927, 1828455, 1828983, 1829511, 1830040, 1830568, 1831097,
      1831626, 1832155, 1832684, 1833214, 1833743, 1834273, 1834803, 1835333,
      1835863, 1836393, 1836923, 1837454, 1837985, 1838516, 1839047, 1839578,
      1840109, 1840641, 1841173, 1841704, 1842236, 1842769, 1843301, 1843833,
      1844366, 1844899, 1845432, 1845965, 1846498, 1847031, 1847565, 1848098,
      1848632, 1849166, 1849700, 1850235, 1850769, 1851304, 1851838, 1852373,
      1852908, 1853444, 1853979, 1854514, 1855050, 1855586, 1856122, 1856658,
      1857194, 1857731, 1858268, 1858804, 1859341, 1859878, 1860416, 1860953,
      1861490, 1862028, 1862566, 1863104, 1863642, 1864180, 1864719, 1865258,
      1865796, 1866335, 1866874, 1867414, 1867953, 1868493, 1869032, 1869572,
      1870112, 1870652, 1871193, 1871733, 1872274, 1872815, 1873356, 1873897,
      1874438, 1874980, 1875521, 1876063, 1876605, 1877147, 1877689, 1878231,
      1878774, 1879317, 1879860, 1880403, 1880946, 1881489, 1882032, 1882576,
      1883120, 1883664, 1884208, 1884752, 1885297, 1885841, 1886386, 1886931,
      1887476, 1888021, 1888566, 1889112, 1889658, 1890203, 1890749, 1891296,
      1891842, 1892388, 1892935, 1893482, 1894029, 1894576, 1895123, 1895670,
      1896218, 1896766, 1897314, 1897862, 1898410, 1898958, 1899507, 1900055,
      1900604, 1901153, 1901702, 1902252, 1902801, 1903351, 1903901, 1904451,
      1905001, 1905551, 1906101, 1906652, 1907203, 1907754, 1908305, 1908856,
      1909407, 1909959, 1910511, 1911062, 1911614, 1912167, 1912719, 1913271,
      1913824, 1914377, 1914930, 1915483, 1916036, 1916590, 1917143, 1917697,
      1918251, 1918805, 1919359, 1919914, 1920468, 1921023, 1921578, 1922133,
      1922688, 1923244, 1923799, 1924355, 1924911, 1925467, 1926023, 1926579,
      1927136, 1927692, 1928249, 1928806, 1929363, 1929921, 1930478, 1931036,
      1931594, 1932151, 1932710, 1933268, 1933826, 1934385, 1934944, 1935503,
      1936062, 1936621, 1937180, 1937740, 1938300, 1938859, 1939419, 1939980,
      1940540, 1941101, 1941661, 1942222, 1942783, 1943344, 1943906, 1944467,
      1945029, 1945591, 1946153, 1946715, 1947277, 1947840, 1948402, 1948965,
      1949528, 1950091, 1950654, 1951218, 1951781, 1952345, 1952909, 1953473,
      1954038, 1954602, 1955167, 1955731, 1956296, 1956861, 1957427, 1957992,
      1958558, 1959123, 1959689, 1960255, 1960821, 1961388, 1961954, 1962521,
      1963088, 1963655, 1964222, 1964790, 1965357, 1965925, 1966493, 1967061,
      1967629, 1968197, 1968766, 1969334, 1969903, 1970472, 1971042, 1971611,
      1972180, 1972750, 1973320, 1973890, 1974460, 1975030, 1975601, 1976172,
      1976742, 1977313, 1977884, 1978456, 1979027, 1979599, 1980171, 1980743,
      1981315, 1981887, 1982460, 1983032, 1983605, 1984178, 1984751, 1985325,
      1985898, 1986472, 1987045, 1987619, 1988194, 1988768, 1989342, 1989917,
      1990492, 1991067, 1991642, 1992217, 1992793, 1993368, 1993944, 1994520,
      1995096, 1995672, 1996249, 1996825, 1997402, 1997979, 1998556, 1999134,
      1999711, 2000289, 2000866, 2001444, 2002022, 2002601, 2003179, 2003758,
      2004337, 2004916, 2005495, 2006074, 2006653, 2007233, 2007813, 2008393,
      2008973, 2009553, 2010134, 2010714, 2011295, 2011876, 2012457, 2013039,
      2013620, 2014202, 2014784, 2015365, 2015948, 2016530, 2017112, 2017695,
      2018278, 2018861, 2019444, 2020027, 2020611, 2021195, 2021778, 2022362,
      2022947, 2023531, 2024115, 2024700, 2025285, 2025870, 2026455, 2027040,
      2027626, 2028212, 2028797, 2029383, 2029970, 2030556, 2031143, 2031729,
      2032316, 2032903, 2033490, 2034078, 2034665, 2035253, 2035841, 2036429,
      2037017, 2037606, 2038194, 2038783, 2039372, 2039961, 2040550, 2041140,
      2041729, 2042319, 2042909, 2043499, 2044089, 2044680, 2045270, 2045861,
      2046452, 2047043, 2047634, 2048226, 2048818, 2049409, 2050001, 2050593,
      2051186, 2051778, 2052371, 2052964, 2053557, 2054150, 2054743, 2055337,
      2055930, 2056524, 2057118, 2057713, 2058307, 2058902, 2059496, 2060091,
      2060686, 2061281, 2061877, 2062472, 2063068, 2063664, 2064260, 2064856,
      2065453, 2066050, 2066646, 2067243, 2067840, 2068438, 2069035, 2069633,
      2070231, 2070829, 2071427, 2072025, 2072624, 2073222, 2073821, 2074420,
      2075019, 2075619, 2076218, 2076818, 2077418, 2078018, 2078618, 2079219,
      2079819, 2080420, 2081021, 2081622, 2082223, 2082825, 2083426, 2084028,
      2084630, 2085232, 2085835, 2086437, 2087040, 2087643, 2088246, 2088849,
      2089452, 2090056, 2090660, 2091263, 2091868, 2092472, 2093076, 2093681,
      2094286, 2094890, 2095496, 2096101, 2096706, 2097312, 2097918, 2098524,
      2099130, 2099736, 2100343, 2100950, 2101556, 2102163, 2102771, 2103378,
      2103986, 2104593, 2105201, 2105809, 2106418, 2107026, 2107635, 2108243,
      2108852, 2109462, 2110071, 2110680, 2111290, 2111900, 2112510, 2113120,
      2113731, 2114341, 2114952, 2115563, 2116174, 2116785, 2117397, 2118008,
      2118620, 2119232, 2119844, 2120456, 2121069, 2121682, 2122294, 2122907,
      2123521, 2124134, 2124748, 2125361, 2125975, 2126589, 2127204, 2127818,
      2128433, 2129048, 2129662, 2130278, 2130893, 2131509, 2132124, 2132740,
      2133356, 2133972, 2134589, 2135205, 2135822, 2136439, 2137056, 2137673,
      2138291, 2138909, 2139526, 2140144, 2140763, 2141381, 2142000, 2142618,
      2143237, 2143856, 2144475, 2145095, 2145715, 2146334, 2146954, 2147574,
      2148195, 2148815, 2149436, 2150057, 2150678, 2151299, 2151921, 2152542,
      2153164, 2153786, 2154408, 2155030, 2155653, 2156275, 2156898, 2157521,
      2158145, 2158768, 2159391, 2160015, 2160639, 2161263, 2161888, 2162512,
      2163137, 2163761, 2164386, 2165012, 2165637, 2166263, 2166888, 2167514,
      2168140, 2168767, 2169393, 2170020, 2170647, 2171274, 2171901, 2172528,
      2173156, 2173783, 2174411, 2175039, 2175668, 2176296, 2176925, 2177553,
      2178182, 2178812, 2179441, 2180071, 2180700, 2181330, 2181960, 2182590,
      2183221, 2183852, 2184482, 2185113, 2185745, 2186376, 2187007, 2187639,
      2188271, 2188903, 2189535, 2190168, 2190801, 2191433, 2192066, 2192700,
      2193333, 2193966, 2194600, 2195234, 2195868, 2196502, 2197137, 2197772,
      2198406, 2199041, 2199677, 2200312, 2200948, 2201583, 2202219, 2202855,
      2203492, 2204128, 2204765, 2205402, 2206039, 2206676, 2207313, 2207951,
      2208589, 2209227, 2209865, 2210503, 2211142, 2211780, 2212419, 2213058,
      2213698, 2214337, 2214977, 2215616, 2216256, 2216897, 2217537, 2218177,
      2218818, 2219459, 2220100, 2220741, 2221383, 2222025, 2222666, 2223308,
      2223951, 2224593, 2225236, 2225878, 2226521, 2227165, 2227808, 2228451,
      2229095, 2229739, 2230383, 2231027, 2231672, 2232316, 2232961, 2233606,
      2234251, 2234897, 2235542, 2236188, 2236834, 2237480, 2238126, 2238773,
      2239419, 2240066, 2240713, 2241361, 2242008, 2242656, 2243303, 2243951,
      2244600, 2245248, 2245897, 2246545, 2247194, 2247843, 2248493, 2249142,
      2249792, 2250442, 2251092, 2251742, 2252392, 2253043, 2253694, 2254345,
      2254996, 2255647, 2256299, 2256951, 2257602, 2258255, 2258907, 2259559,
      2260212, 2260865, 2261518, 2262171, 2262825, 2263478, 2264132, 2264786,
      2265440, 2266095, 2266749, 2267404, 2268059, 2268714, 2269369, 2270025,
      2270681, 2271337, 2271993, 2272649, 2273305, 2273962, 2274619, 2275276,
      2275933, 2276590, 2277248, 2277906, 2278564, 2279222, 2279880, 2280539,
      2281198, 2281857, 2282516, 2283175, 2283835, 2284494, 2285154, 2285814,
      2286474, 2287135, 2287796, 2288456, 2289117, 2289779, 2290440, 2291102,
      2291763, 2292425, 2293088, 2293750, 2294413, 2295075, 2295738, 2296401,
      2297065, 2297728, 2298392, 2299056, 2299720, 2300384, 2301049, 2301713,
      2302378, 2303043, 2303708, 2304374, 2305039, 2305705, 2306371, 2307038,
      2307704, 2308370, 2309037, 2309704, 2310371, 2311039, 2311706, 2312374,
      2313042, 2313710, 2314378, 2315047, 2315716, 2316385, 2317054, 2317723,
      2318392, 2319062, 2319732, 2320402, 2321072, 2321743, 2322413, 2323084,
      2323755, 2324426, 2325098, 2325769, 2326441, 2327113, 2327785, 2328458,
      2329130, 2329803, 2330476, 2331149, 2331823, 2332496, 2333170, 2333844,
      2334518, 2335192, 2335867, 2336542, 2337217, 2337892, 2338567, 2339243,
      2339918, 2340594, 2341270, 2341946, 2342623, 2343300, 2343977, 2344654,
      2345331, 2346008, 2346686, 2347364, 2348042, 2348720, 2349399, 2350077,
      2350756, 2351435, 2352114, 2352794, 2353473, 2354153, 2354833, 2355513,
      2356194, 2356874, 2357555, 2358236, 2358917, 2359599, 2360280, 2360962,
      2361644, 2362326, 2363008, 2363691, 2364374, 2365057, 2365740, 2366423,
      2367107, 2367791, 2368474, 2369159, 2369843, 2370527, 2371212, 2371897,
      2372582, 2373268, 2373953, 2374639, 2375325, 2376011, 2376697, 2377384,
      2378070, 2378757, 2379444, 2380132, 2380819, 2381507, 2382195, 2382883,
      2383571, 2384260, 2384948, 2385637, 2386326, 2387016, 2387705, 2388395,
      2389085, 2389775, 2390465, 2391156, 2391846, 2392537, 2393228, 2393920,
      2394611, 2395303, 2395995, 2396687, 2397379, 2398072, 2398764, 2399457,
      2400150, 2400844, 2401537, 2402231, 2402925, 2403619, 2404313, 2405008,
      2405702, 2406397, 2407092, 2407788, 2408483, 2409179, 2409875, 2410571,
      2411267, 2411964, 2412660, 2413357, 2414054, 2414752, 2415449, 2416147,
      2416845, 2417543, 2418241, 2418940, 2419638, 2420337, 2421036, 2421736,
      2422435, 2423135, 2423835, 2424535, 2425235, 2425936, 2426637, 2427338,
      2428039, 2428740, 2429442, 2430143, 2430845, 2431547, 2432250, 2432952,
      2433655, 2434358, 2435061, 2435765, 2436468, 2437172, 2437876, 2438580,
      2439285, 2439989, 2440694, 2441399, 2442104, 2442810, 2443515, 2444221,
      2444927, 2445633, 2446340, 2447046, 2447753, 2448460, 2449167, 2449875,
      2450583, 2451290, 2451999, 2452707, 2453415, 2454124, 2454833, 2455542,
      2456251, 2456961, 2457670, 2458380, 2459090, 2459801, 2460511, 2461222,
      2461933, 2462644, 2463355, 2464067, 2464779, 2465491, 2466203, 2466915,
      2467628, 2468341, 2469054, 2469767, 2470480, 2471194, 2471908, 2472622,
      2473336, 2474050, 2474765, 2475480, 2476195, 2476910, 2477625, 2478341,
      2479057, 2479773, 2480489, 2481206, 2481923, 2482639, 2483357, 2484074,
      2484791, 2485509, 2486227, 2486945, 2487664, 2488382, 2489101, 2489820,
      2490539, 2491259, 2491978, 2492698, 2493418, 2494138, 2494859, 2495579,
      2496300, 2497021, 2497743, 2498464, 2499186, 2499908, 2500630, 2501352,
      2502075, 2502797, 2503520, 2504243, 2504967, 2505690, 2506414, 2507138,
      2507862, 2508587, 2509311, 2510036, 2510761, 2511486, 2512212, 2512937,
      2513663, 2514389, 2515116, 2515842, 2516569, 2517296, 2518023, 2518750,
      2519478, 2520206, 2520934, 2521662, 2522390, 2523119, 2523848, 2524577,
      2525306, 2526035, 2526765, 2527495, 2528225, 2528955, 2529686, 2530416,
      2531147, 2531878, 2532610, 2533341, 2534073, 2534805, 2535537, 2536270,
      2537002, 2537735, 2538468, 2539201, 2539935, 2540668, 2541402, 2542136,
      2542871, 2543605, 2544340, 2545075, 2545810, 2546545, 2547281, 2548017,
      2548753, 2549489, 2550225, 2550962, 2551699, 2552436, 2553173, 2553911,
      2554648, 2555386, 2556124, 2556863, 2557601, 2558340, 2559079, 2559818,
      2560558, 2561297, 2562037, 2562777, 2563518, 2564258, 2564999, 2565740,
      2566481, 2567222, 2567964, 2568705, 2569447, 2570190, 2570932, 2571675,
      2572417, 2573160, 2573904, 2574647, 2575391, 2576135, 2576879, 2577623,
      2578368, 2579113, 2579858, 2580603, 2581348, 2582094, 2582840, 2583586,
      2584332, 2585078, 2585825, 2586572, 2587319, 2588067, 2588814, 2589562,
      2590310, 2591058, 2591807, 2592555, 2593304, 2594053, 2594803, 2595552,
      2596302, 2597052, 2597802, 2598552, 2599303, 2600054, 2600805, 2601556,
      2602307, 2603059, 2603811, 2604563, 2605315, 2606068, 2606821, 2607574,
      2608327, 2609080, 2609834, 2610588, 2611342, 2612096, 2612851, 2613606,
      2614360, 2615116, 2615871, 2616627, 2617382, 2618139, 2618895, 2619651,
      2620408, 2621165, 2621922, 2622679, 2623437, 2624195, 2624953, 2625711,
      2626469, 2627228, 2627987, 2628746, 2629505, 2630265, 2631025, 2631785,
      2632545, 2633305, 2634066, 2634827, 2635588, 2636349, 2637111, 2637872,
      2638634, 2639396, 2640159, 2640921, 2641684, 2642447, 2643211, 2643974,
      2644738, 2645502, 2646266, 2647030, 2647795, 2648560, 2649325, 2650090,
      2650856, 2651621, 2652387, 2653153, 2653920, 2654686, 2655453, 2656220,
      2656987, 2657755, 2658523, 2659291, 2660059, 2660827, 2661596, 2662364,
      2663133, 2663903, 2664672, 2665442, 2666212, 2666982, 2667752, 2668523,
      2669294, 2670065, 2670836, 2671608, 2672379, 2673151, 2673923, 2674696,
      2675468, 2676241, 2677014, 2677787, 2678561, 2679335, 2680109, 2680883,
      2681657, 2682432, 2683206, 2683982, 2684757, 2685532, 2686308, 2687084,
      2687860, 2688637, 2689413, 2690190, 2690967, 2691744, 2692522, 2693300,
      2694078, 2694856, 2695634, 2696413, 2697192, 2697971, 2698750, 2699530,
      2700309, 2701089, 2701870, 2702650, 2703431, 2704212, 2704993, 2705774,
      2706556, 2707337, 2708120, 2708902, 2709684, 2710467, 2711250, 2712033,
      2712816, 2713600, 2714384, 2715168, 2715952, 2716737, 2717521, 2718306,
      2719092, 2719877, 2720663, 2721449, 2722235, 2723021, 2723807, 2724594,
      2725381, 2726169, 2726956, 2727744, 2728532, 2729320, 2730108, 2730897,
      2731686, 2732475, 2733264, 2734053, 2734843, 2735633, 2736423, 2737214,
      2738004, 2738795, 2739586, 2740378, 2741169, 2741961, 2742753, 2743545,
      2744338, 2745131, 2745923, 2746717, 2747510, 2748304, 2749097, 2749892,
      2750686, 2751480, 2752275, 2753070, 2753865, 2754661, 2755457, 2756253,
      2757049, 2757845, 2758642, 2759439, 2760236, 2761033, 2761830, 2762628,
      2763426, 2764224, 2765023, 2765822, 2766620, 2767420, 2768219, 2769019,
      2769818, 2770618, 2771419, 2772219, 2773020, 2773821, 2774622, 2775424,
      2776225, 2777027, 2777830, 2778632, 2779435, 2780237, 2781040, 2781844,
      2782647, 2783451, 2784255, 2785059, 2785864, 2786669, 2787473, 2788279,
      2789084, 2789890, 2790696, 2791502, 2792308, 2793115, 2793921, 2794728,
      2795536, 2796343, 2797151, 2797959, 2798767, 2799575, 2800384, 2801193,
      2802002, 2802812, 2803621, 2804431, 2805241, 2806051, 2806862, 2807673,
      2808484, 2809295, 2810106, 2810918, 2811730, 2812542, 2813355, 2814167,
      2814980, 2815793, 2816607, 2817420, 2818234, 2819048, 2819862, 2820677,
      2821492, 2822307, 2823122, 2823937, 2824753, 2825569, 2826385, 2827202,
      2828018, 2828835, 2829652, 2830470, 2831287, 2832105, 2832923, 2833741,
      2834560, 2835379, 2836198, 2837017, 2837836, 2838656, 2839476, 2840296,
      2841117, 2841937, 2842758, 2843579, 2844401, 2845222, 2846044, 2846866,
      2847689, 2848511, 2849334, 2850157, 2850980, 2851804, 2852628, 2853452,
      2854276, 2855100, 2855925, 2856750, 2857575, 2858400, 2859226, 2860052,
      2860878, 2861705, 2862531, 2863358, 2864185, 2865012, 2865840, 2866668,
      2867496, 2868324, 2869153, 2869981, 2870810, 2871640, 2872469, 2873299,
      2874129, 2874959, 2875789, 2876620, 2877451, 2878282, 2879114, 2879945,
      2880777, 2881609, 2882442, 2883274, 2884107, 2884940, 2885773, 2886607,
      2887441, 2888275, 2889109, 2889944, 2890778, 2891613, 2892449, 2893284,
      2894120, 2894956, 2895792, 2896629, 2897465, 2898302, 2899139, 2899977,
      2900815, 2901652, 2902491, 2903329, 2904168, 2905007, 2905846, 2906685,
      2907525, 2908364, 2909205, 2910045, 2910885, 2911726, 2912567, 2913409,
      2914250, 2915092, 2915934, 2916776, 2917619, 2918462, 2919305, 2920148,
      2920991, 2921835, 2922679, 2923523, 2924368, 2925212, 2926057, 2926903,
      2927748, 2928594, 2929440, 2930286, 2931132, 2931979, 2932826, 2933673,
      2934520, 2935368, 2936216, 2937064, 2937912, 2938761, 2939610, 2940459,
      2941308, 2942158, 2943008, 2943858, 2944708, 2945559, 2946410, 2947261,
      2948112, 2948964, 2949815, 2950668, 2951520, 2952372, 2953225, 2954078,
      2954932, 2955785, 2956639, 2957493, 2958347, 2959202, 2960057, 2960912,
      2961767, 2962622, 2963478, 2964334, 2965190, 2966047, 2966904, 2967761,
      2968618, 2969475, 2970333, 2971191, 2972049, 2972908, 2973767, 2974626,
      2975485, 2976344, 2977204, 2978064, 2978924, 2979785, 2980645, 2981506,
      2982368, 2983229, 2984091, 2984953, 2985815, 2986677, 2987540, 2988403,
      2989266, 2990130, 2990993, 2991857, 2992722, 2993586, 2994451, 2995316,
      2996181, 2997046, 2997912, 2998778, 2999644, 3000511, 3001377, 3002244,
      3003112, 3003979, 3004847, 3005715, 3006583, 3007451, 3008320, 3009189,
      3010058, 3010928, 3011797, 3012667, 3013538, 3014408, 3015279, 3016150,
      3017021, 3017892, 3018764, 3019636, 3020508, 3021381, 3022254, 3023127,
      3024000, 3024873, 3025747, 3026621, 3027495, 3028370, 3029245, 3030120,
      3030995, 3031870, 3032746, 3033622, 3034498, 3035375, 3036252, 3037129,
      3038006, 3038884, 3039761, 3040639, 3041518, 3042396, 3043275, 3044154,
      3045033, 3045913, 3046793, 3047673, 3048553, 3049434, 3050315, 3051196,
      3052077, 3052959, 3053841, 3054723, 3055605, 3056488, 3057370, 3058254,
      3059137, 3060021, 3060905, 3061789, 3062673, 3063558, 3064443, 3065328,
      3066213, 3067099, 3067985, 3068871, 3069758, 3070644, 3071531, 3072418,
      3073306, 3074194, 3075082, 3075970, 3076858, 3077747, 3078636, 3079525,
      3080415, 3081305, 3082195, 3083085, 3083976, 3084866, 3085758, 3086649,
      3087540, 3088432, 3089324, 3090217, 3091109, 3092002, 3092895, 3093789,
      3094682, 3095576, 3096471, 3097365, 3098260, 3099155, 3100050, 3100945,
      3101841, 3102737, 3103633, 3104530, 3105426, 3106323, 3107221, 3108118,
      3109016, 3109914, 3110812, 3111711, 3112610, 3113509, 3114408, 3115308,
      3116208, 3117108, 3118008, 3118909, 3119810, 3120711, 3121612, 3122514,
      3123416, 3124318, 3125221, 3126123, 3127026, 3127930, 3128833, 3129737,
      3130641, 3131545, 3132450, 3133355, 3134260, 3135165, 3136071, 3136976,
      3137883, 3138789, 3139696, 3140603, 3141510, 3142417, 3143325, 3144233,
      3145141, 3146050, 3146958, 3147867, 3148777, 3149686, 3150596, 3151506,
      3152416, 3153327, 3154238, 3155149, 3156060, 3156972, 3157884, 3158796,
      3159708, 3160621, 3161534, 3162447, 3163361, 3164274, 3165188, 3166103,
      3167017, 3167932, 3168847, 3169762, 3170678, 3171594, 3172510, 3173426,
      3174343, 3175260, 3176177, 3177095, 3178012, 3178930, 3179849, 3180767,
      3181686, 3182605, 3183524, 3184444, 3185364, 3186284, 3187204, 3188125,
      3189046, 3189967, 3190888, 3191810, 3192732, 3193654, 3194577, 3195499,
      3196422, 3197346, 3198269, 3199193, 3200117, 3201041, 3201966, 3202891,
      3203816, 3204742, 3205667, 3206593, 3207519, 3208446, 3209373, 3210300,
      3211227, 3212155, 3213083, 3214011, 3214939, 3215868, 3216797, 3217726,
      3218655, 3219585, 3220515, 3221445, 3222376, 3223306, 3224238, 3225169,
      3226100, 3227032, 3227964, 3228897, 3229830, 3230763, 3231696, 3232629,
      3233563, 3234497, 3235431, 3236366, 3237301, 3238236, 3239171, 3240107,
      3241043, 3241979, 3242915, 3243852, 3244789, 3245726, 3246664, 3247602,
      3248540, 3249478, 3250417, 3251356, 3252295, 3253234, 3254174, 3255114,
      3256054, 3256995, 3257935, 3258877, 3259818, 3260759, 3261701, 3262644,
      3263586, 3264529, 3265472, 3266415, 3267358, 3268302, 3269246, 3270191,
      3271135, 3272080, 3273025, 3273971, 3274916, 3275862, 3276809, 3277755,
      3278702, 3279649, 3280596, 3281544, 3282492, 3283440, 3284388, 3285337,
      3286286, 3287235, 3288185, 3289135, 3290085, 3291035, 3291986, 3292937,
      3293888, 3294839, 3295791, 3296743, 3297695, 3298648, 3299601, 3300554,
      3301507, 3302461, 3303415, 3304369, 3305323, 3306278, 3307233, 3308188,
      3309144, 3310100, 3311056, 3312012, 3312969, 3313926, 3314883, 3315841,
      3316798, 3317757, 3318715, 3319674, 3320632, 3321592, 3322551, 3323511,
      3324471, 3325431, 3326392, 3327352, 3328314, 3329275, 3330237, 3331199,
      3332161, 3333123, 3334086, 3335049, 3336012, 3336976, 3337940, 3338904,
      3339869, 3340833, 3341798, 3342764, 3343729, 3344695, 3345661, 3346628,
      3347594, 3348561, 3349528, 3350496, 3351464, 3352432, 3353400, 3354369,
      3355338, 3356307, 3357276, 3358246, 3359216, 3360187, 3361157, 3362128,
      3363099, 3364071, 3365042, 3366014, 3366987, 3367959, 3368932, 3369905,
      3370879, 3371852, 3372826, 3373801, 3374775, 3375750, 3376725, 3377700,
      3378676, 3379652, 3380628, 3381605, 3382581, 3383559, 3384536, 3385514,
      3386491, 3387470, 3388448, 3389427, 3390406, 3391385, 3392365, 3393345,
      3394325, 3395305, 3396286, 3397267, 3398249, 3399230, 3400212, 3401194,
      3402177, 3403159, 3404142, 3405126, 3406109, 3407093, 3408077, 3409062,
      3410046, 3411031, 3412017, 3413002, 3413988, 3414974, 3415961, 3416947,
      3417934, 3418922, 3419909, 3420897, 3421885, 3422874, 3423862, 3424851,
      3425841, 3426830, 3427820, 3428810, 3429801, 3430791, 3431782, 3432774,
      3433765, 3434757, 3435749, 3436742, 3437734, 3438727, 3439721, 3440714,
      3441708, 3442702, 3443697, 3444691, 3445686, 3446682, 3447677, 3448673,
      3449669, 3450666, 3451662, 3452659, 3453657, 3454654, 3455652, 3456650,
      3457649, 3458648, 3459647, 3460646, 3461646, 3462645, 3463646, 3464646,
      3465647, 3466648, 3467649, 3468651, 3469653, 3470655, 3471658, 3472660,
      3473664, 3474667, 3475671, 3476675, 3477679, 3478683, 3479688, 3480693,
      3481699, 3482704, 3483710, 3484717, 3485723, 3486730, 3487737, 3488745,
      3489752, 3490760, 3491769, 3492777, 3493786, 3494795, 3495805, 3496815,
      3497825, 3498835, 3499846, 3500857, 3501868, 3502879, 3503891, 3504903,
      3505916, 3506928, 3507941, 3508955, 3509968, 3510982, 3511996, 3513011,
      3514026, 3515041, 3516056, 3517072, 3518087, 3519104, 3520120, 3521137,
      3522154, 3523171, 3524189, 3525207, 3526225, 3527244, 3528263, 3529282,
      3530301, 3531321, 3532341, 3533361, 3534382, 3535403, 3536424, 3537446,
      3538468, 3539490, 3540512, 3541535, 3542558, 3543581, 3544605, 3545628,
      3546653, 3547677, 3548702, 3549727, 3550752, 3551778, 3552804, 3553830,
      3554857, 3555883, 3556911, 3557938, 3558966, 3559994, 3561022, 3562051,
      3563080, 3564109, 3565138, 3566168, 3567198, 3568229, 3569259, 3570290,
      3571321, 3572353, 3573385, 3574417, 3575450, 3576482, 3577515, 3578549,
      3579583, 3580617, 3581651, 3582685, 3583720, 3584755, 3585791, 3586827,
      3587863, 3588899, 3589936, 3590973, 3592010, 3593048, 3594085, 3595124,
      3596162, 3597201, 3598240, 3599279, 3600319, 3601359, 3602399, 3603440>>

\* The octaves frequency g > 0 lies below [BaseA, 2 * BaseA).
RECURSIVE OctavesBelow(_)
OctavesBelow(g) ==
    IF g >= 2 * BaseA THEN OctavesBelow(g \div 2) - 1
    ELSE IF g >= BaseA THEN 0
    ELSE 1 + OctavesBelow(2 * g)

ShiftUp(g, octaves) == IF octaves >= 0 THEN g * (2 ^ octaves) ELSE g \div (2 ^ (-octaves))

\* The greatest k in lo..hi with HalfCentStart[k] <= g, by bisection
\* (HalfCentStart[lo] <= g).
RECURSIVE LastStartAtMost(_, _, _)
LastStartAtMost(g, lo, hi) ==
    IF lo = hi THEN lo
    ELSE IF HalfCentStart[(lo + hi + 1) \div 2] <= g
         THEN LastStartAtMost(g, (lo + hi + 1) \div 2, hi)
         ELSE LastStartAtMost(g, lo, ((lo + hi + 1) \div 2) - 1)

\* floor(NoteScale * 12 * log2(g / BaseA)) for g in [BaseA, 2 * BaseA).
NoteNumInBase(g) == LastStartAtMost(g, 1, Len(HalfCentStart)) - 1

\* noteNum for frequency > 0.
NoteNum(frequency) ==
    LET octaves == OctavesBelow(frequency)
    IN  NoteScale * 12 * (BaseOctave - octaves) + NoteNumInBase(ShiftUp(frequency, octaves))

\* Math.round(12 * (Math.log(frequency / 440) / Math.log(2)))
RoundedNote(frequency) == RoundDiv(NoteNum(frequency), NoteScale)

\* a % b of JavaScript for b > 0: the sign of the dividend.
Remainder(a, b) == IF a >= 0 THEN a % b ELSE -((-a) % b)

\* 440 * 2^(s / 12), s in 0..11, raised by BaseOctave octaves.
SemitoneFrequency ==
    <<1802240, 1909407, 2022946, 2143237, 2270680, 2405702, 2548752, 2700309,
      2860878, 3030994, 3211227, 3402176>>

\* 440 * Math.pow(2, noteNumRounded / 12)
TargetFrequency(noteNumRounded) ==
    ShiftUp(SemitoneFrequency[(noteNumRounded % 12) + 1], (noteNumRounded \div 12) - BaseOctave)


\* this.noteStrings[noteIndex] + octave: a string and a number concatenate;
\* outside 0..11 the entry is undefined, and undefined + octave is NaN.
NoteText(noteIndex, octave) ==
    IF noteIndex \in 0..11 THEN <<NoteStrings[noteIndex + 1]>> \o NumberText(octave)
    ELSE <<"NaN">>

\* midiToNoteName(midiNote)
NoteName(midiNote) == NoteText(Remainder(midiNote, 12), FloorDiv(midiNote, 12) - 1)

\* The mutation: Math.floor(noteNum) for Math.round(noteNum).
FrequencyToNoteFloorsNoteNum(frequency) ==
    LET noteNum == NoteNum(frequency)
        noteNumRounded == FloorDiv(noteNum, NoteScale)
        midiNote == noteNumRounded + 69
        octave == FloorDiv(midiNote, 12) - 1
        noteIndex == Remainder(midiNote, 12)
    IN  [name |-> NoteText(noteIndex, octave),
         frequency |-> frequency,
         cents |-> RoundDiv((noteNum - noteNumRounded * NoteScale) * 100, NoteScale),
         octave |-> octave,
         midiNote |-> midiNote]

\* frequencyToNote(frequency) for frequency > 0: the record it returns.
FrequencyToNote(frequency) ==
    LET noteNum == NoteNum(frequency)
        noteNumRounded == RoundDiv(noteNum, NoteScale)
        midiNote == noteNumRounded + 69
        octave == FloorDiv(midiNote, 12) - 1
        noteIndex == Remainder(midiNote, 12)
    IN  [name |-> NoteText(noteIndex, octave),
         frequency |-> frequency,
         cents |-> RoundDiv((noteNum - noteNumRounded * NoteScale) * 100, NoteScale),
         octave |-> octave,
         midiNote |-> midiNote]

\* frequencyToNote(frequency) for any finite frequency: the record it
\* returns and the targetFrequency it sets.  Math.log(0) is -Infinity and
\* the logarithm of a negative number is NaN; -Infinity % 12 is NaN,
\* -Infinity - -Infinity is NaN and 2 ^ -Infinity is 0.
FrequencyToNoteResult(frequency) ==
    IF frequency > 0
    THEN LET note == FrequencyToNote(frequency)
         IN  [name |-> note.name,
              frequency |-> frequency,
              cents |-> Finite(note.cents),
              octave |-> Finite(note.octave),
              midiNote |-> Finite(note.midiNote),
              targetFrequency |-> Finite(TargetFrequency(note.midiNote - 69))]
    ELSE IF frequency = 0
    THEN [name |-> <<"NaN">>,
          frequency |-> frequency,
          cents |-> NaN,
          octave |-> NegativeInfinity,
          midiNote |-> NegativeInfinity,
          targetFrequency |-> Finite(0)]
    ELSE [name |-> <<"NaN">>,
          frequency |-> frequency,
          cents |-> NaN,
          octave |-> NaN,
          midiNote |-> NaN,
          targetFrequency |-> NaN]

(***************************************************************************)
(* smoothFrequencies.                                                      *)
(***************************************************************************)
\* All peaks of the buffer, frame after frame.
RECURSIVE Flatten(_)
Flatten(buffer) ==
    IF Len(buffer) = 0 THEN <<>> ELSE Head(buffer) \o Flatten(Tail(buffer))

\* The keys of frequencyMap in insertion order; rounded[k] is the
\* roundedNote of peak k.
RECURSIVE GroupKeys(_, _)
GroupKeys(rounded, seen) ==
    IF Len(rounded) = 0 THEN seen
    ELSE GroupKeys(Tail(rounded),
                   IF \E k \in 1..Len(seen) : seen[k] = Head(rounded)
                   THEN seen ELSE Append(seen, Head(rounded)))

RECURSIVE SumOf(_, _)
SumOf(peaks, field) ==
    IF Len(peaks) = 0 THEN 0 ELSE Head(peaks)[field] + SumOf(Tail(peaks), field)

\* frequencyMap.get(roundedNote): the peaks of that key, in buffer order.
RECURSIVE SelectPeaks(_, _, _)
SelectPeaks(peaks, rounded, roundedNote) ==
    IF Len(peaks) = 0 THEN <<>>
    ELSE (IF Head(rounded) = roundedNote THEN <<Head(peaks)>> ELSE <<>>)
             \o SelectPeaks(Tail(peaks), Tail(rounded), roundedNote)

\* One group of frequencyMap: its sums and its size.
GroupOf(peaks, rounded, roundedNote) ==
    LET group == SelectPeaks(peaks, rounded, roundedNote)
    IN  [freqSum |-> SumOf(group, "frequency"),
         ampSum |-> SumOf(group, "amplitude"),
         count |-> Len(group)]

\* smoothed.sort((a, b) => b.amplitude - a.amplitude) on the averages
\* ampSum / count, compared exactly; stable.
RECURSIVE SortGroups(_)
SortGroups(s) ==
    IF Len(s) <= 1 THEN s
    ELSE LET rest == SortGroups(SubSeq(s, 1, Len(s) - 1))
             g == s[Len(s)]
             k == Cardinality({i \in 1..Len(rest) :
                      rest[i].ampSum * g.count >= g.ampSum * rest[i].count})
         IN  SubSeq(rest, 1, k) \o <<g>> \o SubSeq(rest, k + 1, Len(rest))

SmoothFrequencies(buffer) ==
    IF Len(buffer) = 0 THEN <<>>
    ELSE LET peaks == Flatten(buffer)
             rounded == [k \in 1..Len(peaks) |-> RoundedNote(peaks[k].frequency)]
             keys == GroupKeys(rounded, <<>>)
             groups == SortGroups([k \in 1..Len(keys) |-> GroupOf(peaks, rounded, keys[k])])
         IN  [k \in 1..Len(groups) |->
                 [frequency |-> FloorDiv(groups[k].freqSum, groups[k].count),
                  amplitude |-> FloorDiv(groups[k].ampSum, groups[k].count),
                  confidence |-> FloorDiv(100 * groups[k].count, SmoothingBufferSize)]]

(***************************************************************************)
(* detectChord / identifyChord.                                            *)
(***************************************************************************)
\* [...notes].sort((a, b) => a.midiNote - b.midiNote): stable, lowest first.
RECURSIVE SortByMidi(_)
SortByMidi(s) ==
    IF Len(s) <= 1 THEN s
    ELSE LET rest == SortByMidi(SubSeq(s, 1, Len(s) - 1))
             n == s[Len(s)]
             k == Cardinality({i \in 1..Len(rest) : rest[i].midiNote <= n.midiNote})
         IN  SubSeq(rest, 1, k) \o <<n>> \o SubSeq(rest, k + 1, Len(rest))

\* The mutation: a fifth among the intervals is enough for the power chord.
IdentifyChordByFifth(root, intervals, noteNames) ==
    IF \E k \in 1..Len(intervals) : intervals[k] = 7
    THEN root \o <<"5", " (Power)">>
    ELSE root \o <<" Chord (">> \o Join(noteNames, " ") \o <<")">>

IdentifyChord(root, intervals, noteNames) ==
    LET intervalsStr == Join([k \in 1..Len(intervals) |-> NumberText(intervals[k])], ",")
    IN  CASE intervalsStr = <<"4", ",", "7">> -> root \o <<" Major">>
          [] intervalsStr = <<"4", ",", "7", ",", "1", "1">> -> root \o <<" Major 7">>
          [] intervalsStr = <<"4", ",", "7", ",", "1", "0">> -> root \o <<" Dominant 7">>
          [] intervalsStr = <<"3", ",", "7">> -> root \o <<" Minor">>
          [] intervalsStr = <<"3", ",", "7", ",", "1", "0">> -> root \o <<" Minor 7">>
          [] intervalsStr = <<"3", ",", "7", ",", "1", "1">> -> root \o <<" Minor Major 7">>
          [] intervalsStr = <<"3", ",", "6">> -> root \o <<" Diminished">>
          [] intervalsStr = <<"3", ",", "6", ",", "9">> -> root \o <<" Diminished 7">>
          [] intervalsStr = <<"4", ",", "8">> -> root \o <<" Augmented">>
          [] intervalsStr = <<"2", ",", "7">> -> root \o <<" Sus2">>
          [] intervalsStr = <<"5", ",", "7">> -> root \o <<" Sus4">>
          [] intervalsStr = <<"4", ",", "7", ",", "1", "0", ",", "2">> -> root \o <<" 9">>
          [] intervalsStr = <<"3", ",", "7", ",", "1", "0", ",", "2">> -> root \o <<" Minor 9">>
          [] intervalsStr = <<"7">> -> root \o <<"5", " (Power)">>
          [] OTHER -> root \o <<" Chord (">> \o Join(noteNames, " ") \o <<")">>

\* The chord name detectChord computes for `notes` (the lines between the
\* rate-limit test and `if (chordName)`).
ChordNameOf(notes) ==
    LET sortedNotes == SortByMidi(notes)
        noteNames == [k \in 1..Len(sortedNotes) |-> RemoveFirstNumber(sortedNotes[k].name)]
        intervals == [k \in 1..(Len(sortedNotes) - 1) |->
                         (sortedNotes[k + 1].midiNote - sortedNotes[1].midiNote) % 12]
    IN  IdentifyChord(sortedNotes[1].name, intervals, noteNames)

\* The mutation: the duplicate test `lastChord.name !== chordName` is dropped.
DetectChordNoDuplicateTest(notes, chords, last, hst, t) ==
    IF t - last < ChordInterval THEN [chords |-> chords, last |-> last]
    ELSE LET sortedNotes == SortByMidi(notes)
             chordName == ChordNameOf(notes)
         IN  IF chordName = <<>> THEN [chords |-> chords, last |-> last]
             ELSE [chords |-> Append(chords,
                                  [name |-> chordName,
                                   notes |-> [k \in 1..Len(sortedNotes) |-> sortedNotes[k].name],
                                   timestamp |-> t - hst]),
                   last |-> t]

\* The mutation: the rate-limit test is dropped.
DetectChordNoRateLimit(notes, chords, last, hst, t) ==
    LET sortedNotes == SortByMidi(notes)
        chordName == ChordNameOf(notes)
    IN  IF Len(chords) = 0 \/ chords[Len(chords)].name # chordName
        THEN [chords |-> Append(chords,
                             [name |-> chordName,
                              notes |-> [k \in 1..Len(sortedNotes) |-> sortedNotes[k].name],
                              timestamp |-> t - hst]),
              last |-> t]
        ELSE [chords |-> chords, last |-> t]

\* detectChord(notes) at time t: the new detectedChords and lastChordTime.
DetectChord(notes, chords, last, hst, t) ==
    IF t - last < ChordInterval THEN [chords |-> chords, last |-> last]
    ELSE LET sortedNotes == SortByMidi(notes)
             chordName == ChordNameOf(notes)
         IN  IF chordName = <<>> THEN [chords |-> chords, last |-> last]
             ELSE IF Len(chords) = 0 \/ chords[Len(chords)].name # chordName
             THEN [chords |-> Append(chords,
                                  [name |-> chordName,
                                   notes |-> [k \in 1..Len(sortedNotes) |-> sortedNotes[k].name],
                                   timestamp |-> t - hst]),
                   last |-> t]
             ELSE [chords |-> chords, last |-> t]

(***************************************************************************)
(* addNoteToHistory / trackWaveform / getAverageVolume.                    *)
(***************************************************************************)
RECURSIVE SumOver(_, _)
SumOver(d, bins) ==
    IF bins = {} THEN 0
    ELSE LET b == CHOOSE x \in bins : TRUE IN d[b] + SumOver(d, bins \ {b})

\* getAverageVolume, times bufferLength.
Volume(d) == SumOver(d, DOMAIN d)

KeepRecent(history, timestamp) ==
    SelectSeq(history, LAMBDA item : timestamp - item.timestamp < MaxHistoryDuration * 1000)

\* addNoteToHistory(note, note.frequency, volume) at time t: [history, hst].
AddNoteToHistory(note, volume, history, hst, t) ==
    LET start == IF hst = 0 THEN t ELSE hst
        timestamp == t - start
    IN  [history |-> KeepRecent(Append(history,
                                   [note |-> note.name,
                                    frequency |-> note.frequency,
                                    cents |-> note.cents,
                                    volume |-> volume,
                                    timestamp |-> timestamp,
                                    midiNote |-> note.midiNote]),
                                timestamp),
         hst |-> start]

\* notes.forEach(note => this.addNoteToHistory(note, note.frequency, volume))
RECURSIVE AddNotesToHistory(_, _, _, _, _)
AddNotesToHistory(notes, volume, history, hst, t) ==
    IF Len(notes) = 0 THEN [history |-> history, hst |-> hst]
    ELSE LET r == AddNoteToHistory(Head(notes), volume, history, hst, t)
         IN  AddNotesToHistory(Tail(notes), volume, r.history, r.hst, t)

\* trackWaveform(volume) at time t: [history, hst].
TrackWaveform(volume, history, hst, t) ==
    LET start == IF hst = 0 THEN t ELSE hst
        timestamp == t - start
    IN  [history |-> KeepRecent(Append(history, [timestamp |-> timestamp, amplitude |-> volume]),
                                timestamp),
         hst |-> start]

\* The mutation: the fundamentals are pushed before the test for none.
PushFrameKeepsEmpty(buffer, frequencies) ==
    LET pushed == Append(buffer, frequencies)
    IN  IF Len(pushed) > SmoothingBufferSize THEN Tail(pushed) ELSE pushed

\* detectPitch: the smoothing buffer after the call.
PushFrame(buffer, frequencies) ==
    IF Len(frequencies) = 0 THEN buffer
    ELSE LET pushed == Append(buffer, frequencies)
         IN  IF Len(pushed) > SmoothingBufferSize THEN Tail(pushed) ELSE pushed

\* The mutation: the early return `if (frequencies.length === 0) return []`
\* is dropped.
DetectPitchSmoothsAlways(buffer, frequencies) ==
    LET pushed == Append(buffer, frequencies)
    IN  SmoothFrequencies(IF Len(pushed) > SmoothingBufferSize THEN Tail(pushed) ELSE pushed)

\* detectPitch: its result.
DetectPitch(buffer, frequencies) ==
    IF Len(frequencies) = 0 THEN <<>> ELSE SmoothFrequencies(PushFrame(buffer, frequencies))

\* The MIDI numbers of a sequence of peaks or notes.
MidiOfPeaks(peaks) == {FrequencyToNote(peaks[k].frequency).midiNote : k \in 1..Len(peaks)}

(***************************************************************************)
(* detectPitch of the first snapshot (lines 329-372): the loudest bin of   *)
(* the search range, refined by parabolic interpolation.                   *)
(***************************************************************************)
\* maxIdx after the loop `if (this.dataArray[i] > maxValue)`: the first bin
\* of the range that holds its greatest magnitude, 0 if all are 0.
MaxIdx(d) ==
    LET above == {i \in MinIndex..(MaxIndexBound - 1) : DataAt(d, i) > 0}
    IN  IF above = {} THEN 0
        ELSE CHOOSE i \in above :
                 \A j \in above : DataAt(d, j) < DataAt(d, i) \/ (DataAt(d, j) = DataAt(d, i) /\ i <= j)

\* (maxIdx + 0.5 * (y3 - y1) / (2 * y2 - y1 - y3)) * nyquist / bufferLength
InterpolatedPitch(d, maxIdx) ==
    LET y1 == DataAt(d, maxIdx - 1)
        y2 == DataAt(d, maxIdx)
        y3 == DataAt(d, maxIdx + 1)
        den == 2 * y2 - y1 - y3
    IN  IF den = 0 THEN DivideByZero(y3 - y1)
        ELSE Finite(maxIdx * BinWidth + FloorQuotient(BinWidth * (y3 - y1), 2 * den))

SinglePitch(d) ==
    LET maxIdx == MaxIdx(d)
        maxValue == DataAt(d, maxIdx)
        returned == IF maxValue < Threshold THEN Finite(0)
                    ELSE IF maxIdx > 0 /\ maxIdx < BufferLength - 1
                         THEN InterpolatedPitch(d, maxIdx)
                         ELSE Finite(maxIdx * BinWidth)
    IN  returned @@ [maxIdx |-> maxIdx]

(***************************************************************************)
(* updatePitchDeviation(cents): cents is a number that may be NaN.         *)
(***************************************************************************)
\* pitchHint.innerHTML = ''
NoHint == [text |-> "", arrow |-> ""]

\* a < b, a > b on numbers: false when a is NaN (b is finite).
LessThan(a, b) == a.kind = "-Infinity" \/ (a.kind = "finite" /\ a.value < b)

GreaterThan(a, b) == a.kind = "Infinity" \/ (a.kind = "finite" /\ a.value > b)

\* Math.abs(cents) < 5
AbsLessThan(a, b) == a.kind = "finite" /\ Abs(a.value) < b

\* The hint updatePitchDeviation(cents) shows.
PitchHint(cents) ==
    IF AbsLessThan(cents, 5) THEN [text |-> "Perfect", arrow |-> ""]
    ELSE IF GreaterThan(cents, 5)
    THEN [text |-> "Too Sharp - Go Lower",
          arrow |-> IF GreaterThan(cents, 20) THEN "down down" ELSE "down"]
    ELSE [text |-> "Too Flat - Go Higher",
          arrow |-> IF LessThan(cents, -20) THEN "up up" ELSE "up"]

(***************************************************************************)
(* Magnitude frames getByteFrequencyData may deliver (bin -> magnitude).   *)
(* Bin b is centred at b * 5.859375 Hz.                                    *)
(***************************************************************************)
\* Nothing at or above the threshold.
QuietFrame == (75 :> 10)

\* Every bin is 0.
SilentFrame == <<>>

\* A4 (bin 75, 439.5 Hz), with unequal neighbours.
FrameA4 == (74 :> 100) @@ (75 :> 200) @@ (76 :> 120)

\* C4, E4, G4 (bins 45, 56, 67).
FrameCEG == (45 :> 200) @@ (56 :> 180) @@ (67 :> 160)

\* A3, C4, E4 (bins 38, 45, 56).
FrameACE == (38 :> 200) @@ (45 :> 180) @@ (56 :> 160)

Frames == {QuietFrame, FrameA4, FrameCEG, FrameACE}

\* Two peaks that round to the same MIDI note, A6 (93): bins 295 and 305,
\* 1728.5 Hz and 1787.1 Hz.
FrameTwoInA6 == (295 :> 200) @@ (305 :> 180)

\* Frames for detectAllFrequencies alone: up to MaxSpikes isolated bins
\* among f = bin 40 (234.4 Hz), 1.5 f, 2 f, 2.075 f, 2.1 f, 3 f and 8 f.
TestBins == {40, 60, 80, 83, 84, 120, 320}

TestAmplitudes == {100, 150, 200}

TestFrames ==
    UNION {[bins -> TestAmplitudes] :
              bins \in {b \in SUBSET TestBins : Cardinality(b) \in 1..MaxSpikes}}

\* this.stream.getTracks().forEach(track => track.stop()), if (this.stream)
StopTracks(defined, live) == IF defined THEN FALSE ELSE live

(***************************************************************************)
(* The state machine.                                                      *)
(***************************************************************************)
Init ==
    /\ isRunning = FALSE
    /\ pendingStarts = 0
    /\ scheduled = 0
    /\ now = Epoch
    /\ dataArray = <<>>
    /\ pickedPeaks = <<>>
    /\ returnedFundamentals = <<>>
    /\ smoothingBuffer = <<>>
    /\ detectedFrequencies = <<>>
    /\ noteHistory = <<>>
    /\ historyStartTime = 0
    /\ waveformHistory = <<>>
    /\ activeNotes = {}
    /\ allDetectedNotes = {}
    /\ detectedChords = <<>>
    /\ lastChordTime = 0
    /\ tickLog = <<>>
    /\ targetFrequency = Finite(0)
    /\ detectedPitch = [kind |-> "finite", value |-> 0, maxIdx |-> 0]
    /\ mappedNote = [name |-> <<>>, frequency |-> 0, cents |-> Finite(0),
                     octave |-> Finite(0), midiNote |-> Finite(0)]
    /\ currentCents = Finite(0)
    /\ pitchHint = NoHint
    /\ audioContext = "none"
    /\ stream = FALSE
    /\ tracksLive = FALSE
    /\ mediaRecorder = 0
    /\ recorders = <<>>
    /\ isRecording = FALSE
    /\ recordBtnDisabled = TRUE
    /\ processing = 0
    /\ decoding = 0
    /\ audioBuffer = FALSE
    /\ playbackBtnDisabled = TRUE
    /\ isPlaying = FALSE
    /\ sourceNode = 0
    /\ sources = <<>>
    /\ lastCall = "none"

\* The body of analyze() past `if (!this.isRunning) return`, up to (not
\* including) requestAnimationFrame, on frame `frame` at a time t of `times`
\* (what does not depend on the time is computed first).
AnalyzeBody(frame, times) ==
    \E volume \in {Volume(frame)}, pushed \in {FindPeaks(frame)} :
    \E found \in {HarmonicFilter(SortByAmplitude(pushed))} :
    \E smoothed \in {DetectPitch(smoothingBuffer, found)} :
    \E notes \in {[k \in 1..Len(smoothed) |->
                      FrequencyToNote(smoothed[k].frequency)
                          @@ [amplitude |-> smoothed[k].amplitude,
                              confidence |-> smoothed[k].confidence]]},
       observed \in {MidiOfPeaks(found)} :
    \E t \in times :
    \E chord \in {IF Len(notes) >= 3
                  THEN DetectChord(notes, detectedChords, lastChordTime, historyStartTime, t)
                  ELSE [chords |-> detectedChords, last |-> lastChordTime]},
       hist \in {AddNotesToHistory(notes, volume, noteHistory, historyStartTime, t)} :
    \E wave \in {TrackWaveform(volume, waveformHistory, hist.hst, t)} :
    LET midis == {notes[k].midiNote : k \in 1..Len(notes)}
        call == IF Len(notes) >= 3
                THEN <<[midis |-> [k \in 1..Len(notes) |-> SortByMidi(notes)[k].midiNote],
                        name |-> ChordNameOf(notes),
                        appended |-> Len(chord.chords) > Len(detectedChords)]>>
                ELSE <<>>
    IN  /\ now' = t
        /\ dataArray' = frame
        /\ pickedPeaks' = pushed
        /\ returnedFundamentals' = found
        /\ smoothingBuffer' = PushFrame(smoothingBuffer, found)
        /\ detectedFrequencies' = smoothed
        /\ activeNotes' = midis
        /\ allDetectedNotes' = allDetectedNotes \cup midis
        /\ detectedChords' = chord.chords
        /\ lastChordTime' = chord.last
        /\ targetFrequency' = IF Len(notes) = 0 THEN targetFrequency
                              ELSE Finite(TargetFrequency(notes[Len(notes)].midiNote - 69))
        /\ currentCents' = IF Len(notes) = 0 THEN currentCents ELSE Finite(notes[1].cents)
        /\ pitchHint' = IF Len(notes) = 0 THEN NoHint ELSE PitchHint(Finite(notes[1].cents))
        /\ noteHistory' = hist.history
        /\ waveformHistory' = wave.history
        /\ historyStartTime' = wave.hst
        /\ tickLog' = Append(tickLog, [time |-> t,
                                       fundamentals |-> found,
                                       observed |-> observed,
                                       reported |-> midis,
                                       chord |-> call])

\* toggleMicrophone while !isRunning: it calls start(), which suspends at
\* `await getUserMedia(...)`.
ToggleStart ==
    /\ ~isRunning
    /\ pendingStarts < MaxPending
    /\ pendingStarts' = pendingStarts + 1
    /\ UNCHANGED <<isRunning, scheduled, detection, standalone, display,
                   microphone, recording, playback>>

\* A click on the start button while !isRunning.
ClickStart ==
    /\ ToggleStart
    /\ UNCHANGED lastCall

\* getUserMedia resolves: the rest of start() sets isRunning and calls
\* analyze(), which runs one pass and requests the next.
StartResolved ==
    /\ pendingStarts > 0
    /\ scheduled < MaxScheduled
    /\ Len(tickLog) < MaxTicks
    /\ pendingStarts' = pendingStarts - 1
    /\ isRunning' = TRUE
    /\ scheduled' = scheduled + 1
    /\ \E frame \in Frames : AnalyzeBody(frame, {now + dt : dt \in TimeSteps})
    /\ tracksLive' = TRUE
    /\ UNCHANGED <<lastCall, standalone, audioContext, stream, recording, playback>>

\* getUserMedia rejects: the catch block of start() only shows a message.
StartFailed ==
    /\ pendingStarts > 0
    /\ pendingStarts' = pendingStarts - 1
    /\ UNCHANGED <<lastCall, isRunning, scheduled, detection, standalone, display,
                   microphone, recording, playback>>

\* toggleMicrophone while isRunning: it calls stop().
ToggleStop ==
    /\ isRunning
    /\ isRunning' = FALSE
    /\ pitchHint' = NoHint
    /\ tracksLive' = StopTracks(stream, tracksLive)
    /\ UNCHANGED <<pendingStarts, scheduled, detection, standalone, currentCents,
                   audioContext, stream, recording, playback>>

\* A click on the start button while isRunning.
ClickStop ==
    /\ ToggleStop
    /\ UNCHANGED lastCall

\* A requested animation frame runs analyze() while isRunning: one pass,
\* and the next frame is requested.
AnimationFrame ==
    /\ scheduled > 0
    /\ isRunning
    /\ Len(tickLog) < MaxTicks
    /\ \E frame \in Frames : AnalyzeBody(frame, {now + dt : dt \in TimeSteps})
    /\ UNCHANGED <<lastCall, isRunning, pendingStarts, scheduled, standalone,
                   microphone, recording, playback>>

\* A requested animation frame runs analyze() while !isRunning: it returns
\* at once and requests nothing.
AnimationFrameStopped ==
    /\ scheduled > 0
    /\ ~isRunning
    /\ scheduled' = scheduled - 1
    /\ UNCHANGED <<lastCall, isRunning, pendingStarts, detection, standalone, display,
                   microphone, recording, playback>>

Next ==
    \/ ClickStart
    \/ StartResolved
    \/ StartFailed
    \/ ClickStop
    \/ AnimationFrame
    \/ AnimationFrameStopped

Spec == Init /\ [][Next]_vars

(***************************************************************************)
(* The same program, with the call toggleMicrophone made last on record.   *)
(***************************************************************************)
LoggedClickStart ==
    /\ ToggleStart
    /\ lastCall' = "start"

LoggedClickStop ==
    /\ ToggleStop
    /\ lastCall' = "stop"

ToggleNext ==
    \/ LoggedClickStart
    \/ StartResolved
    \/ StartFailed
    \/ LoggedClickStop
    \/ AnimationFrame
    \/ AnimationFrameStopped

ToggleSpec == Init /\ [][ToggleNext]_vars

(***************************************************************************)
(* One analysis loop: one click on the start button, getUserMedia          *)
(* resolves, and analyze runs pass after pass, with silences that last as  *)
(* long as the history retention window.                                   *)
(***************************************************************************)
MaxLoopTicks == 6

\* The frame a pass reads and the time that passed before it (ms).
LoopSteps ==
    {[frame |-> QuietFrame, dt |-> 100],
     [frame |-> FrameA4, dt |-> 100],
     [frame |-> FrameTwoInA6, dt |-> 100],
     [frame |-> QuietFrame, dt |-> MaxHistoryDuration * 1000],
     [frame |-> SilentFrame, dt |-> 100]}

LoopClickStart ==
    /\ pendingStarts = 0
    /\ ClickStart

LoopStartResolved ==
    /\ pendingStarts > 0
    /\ pendingStarts' = pendingStarts - 1
    /\ isRunning' = TRUE
    /\ scheduled' = scheduled + 1
    /\ \E step \in LoopSteps : AnalyzeBody(step.frame, {now + step.dt})
    /\ tracksLive' = TRUE
    /\ UNCHANGED <<lastCall, standalone, audioContext, stream, recording, playback>>

LoopAnimationFrame ==
    /\ scheduled > 0
    /\ isRunning
    /\ Len(tickLog) < MaxLoopTicks
    /\ \E step \in LoopSteps : AnalyzeBody(step.frame, {now + step.dt})
    /\ UNCHANGED <<lastCall, isRunning, pendingStarts, scheduled, standalone,
                   microphone, recording, playback>>

LoopNext ==
    \/ LoopClickStart
    \/ LoopStartResolved
    \/ LoopAnimationFrame

LoopSpec == Init /\ [][LoopNext]_vars

(***************************************************************************)
(* detectAllFrequencies on its own: it reads a frame and returns the       *)
(* fundamentals.  It keeps no state between calls, so one call on each     *)
(* frame, from the initial state, shows all it does.                       *)
(***************************************************************************)
DetectAllFrequenciesCall ==
    /\ dataArray = <<>>
    /\ \E frame \in TestFrames :
          /\ dataArray' = frame
          /\ pickedPeaks' = FindPeaks(frame)
          /\ returnedFundamentals' = DetectAllFrequencies(frame)
    /\ UNCHANGED <<lastCall, isRunning, pendingStarts, scheduled, now, smoothingBuffer,
                   detectedFrequencies, noteHistory,
                   historyStartTime, waveformHistory, activeNotes, allDetectedNotes,
                   detectedChords, lastChordTime, targetFrequency, tickLog, standalone, display,
                   microphone, recording, playback>>

DetectSpec == Init /\ [][DetectAllFrequenciesCall]_vars

(***************************************************************************)
(* Peak picking on its own: detectAllFrequencies on frames whose spikes    *)
(* sit at the two ends of the search range [MinIndex, MaxIndexBound) and   *)
(* whose magnitudes are at the threshold.                                  *)
(***************************************************************************)
\* Bin 12 is below the range, 13 and 14 are its first bins, 18 is the first
\* bin the loop visits and 335 the last, 339 and 340 are the last bins of
\* the range and 341 is above it.
EdgeBins == {12, 13, 14, 18, 20, 335, 339, 340, 341}

EdgeAmplitudes == {Threshold - 1, Threshold, Threshold + 1}

EdgeFrames ==
    UNION {[bins -> EdgeAmplitudes] :
              bins \in {b \in SUBSET EdgeBins : Cardinality(b) \in 1..MaxSpikes}}

\* Frames with up to eight peaks, none within the peak window of another:
\* bins 100 to 160 are no harmonics of one another, bin 200 is the octave of
\* bin 100.  The magnitudes rise with the bin, or fall.
CrowdedBins == {100, 110, 120, 130, 140, 150, 160, 200}

CrowdedFrames ==
    {[b \in bins |-> b] : bins \in (SUBSET CrowdedBins) \ {{}}}
        \cup {[b \in bins |-> 300 - b] : bins \in (SUBSET CrowdedBins) \ {{}}}

PeakFrames == EdgeFrames \cup CrowdedFrames

PeakPickingCall ==
    /\ dataArray = <<>>
    /\ \E frame \in PeakFrames :
          /\ dataArray' = frame
          /\ pickedPeaks' = FindPeaks(frame)
          /\ returnedFundamentals' = DetectAllFrequencies(frame)
    /\ UNCHANGED <<lastCall, isRunning, pendingStarts, scheduled, now, smoothingBuffer,
                   detectedFrequencies, noteHistory,
                   historyStartTime, waveformHistory, activeNotes, allDetectedNotes,
                   detectedChords, lastChordTime, targetFrequency, tickLog, standalone, display,
                   microphone, recording, playback>>

\* detectPitch of the first snapshot on the same frames.
SinglePitchCall ==
    /\ dataArray = <<>>
    /\ \E frame \in PeakFrames :
          /\ dataArray' = frame
          /\ detectedPitch' = SinglePitch(frame)
    /\ UNCHANGED <<lastCall, isRunning, pendingStarts, scheduled, now, pickedPeaks, returnedFundamentals,
                   smoothingBuffer, detectedFrequencies, noteHistory, historyStartTime, waveformHistory,
                   activeNotes, allDetectedNotes, detectedChords, lastChordTime,
                   targetFrequency, tickLog, mappedNote, display,
                   microphone, recording, playback>>

PeakNext == PeakPickingCall \/ SinglePitchCall

PeakSpec == Init /\ [][PeakNext]_vars

(***************************************************************************)
(* frequencyToNote on its own, called with any finite number.              *)
(***************************************************************************)
\* The first frequency (1/64 Hz) that rounds to A#4 rather than A4:
\* 440 * 2^(0.5 / 12) = 452.893 Hz.
HalfWay == 28986

SweepWidth == 50

\* -2 Hz to 12 Hz, the frequencies around the half-way point, 440 Hz, and
\* the centres of the test bins.
MapperFrequencies ==
    {k * FreqScale : k \in -2..12}
        \cup ((HalfWay - SweepWidth)..(HalfWay + SweepWidth))
        \cup {A4 * FreqScale}
        \cup {b * BinWidth : b \in TestBins}

FrequencyToNoteCall ==
    /\ \E frequency \in MapperFrequencies :
          \E result \in {FrequencyToNoteResult(frequency)} :
              /\ mappedNote' = [name |-> result.name,
                                frequency |-> result.frequency,
                                cents |-> result.cents,
                                octave |-> result.octave,
                                midiNote |-> result.midiNote]
              /\ targetFrequency' = result.targetFrequency
    /\ UNCHANGED <<lastCall, isRunning, pendingStarts, scheduled, now, dataArray, pickedPeaks,
                   returnedFundamentals, smoothingBuffer, detectedFrequencies, noteHistory,
                   historyStartTime, waveformHistory, activeNotes, allDetectedNotes,
                   detectedChords, lastChordTime, tickLog, detectedPitch, display,
                   microphone, recording, playback>>

MapperSpec == Init /\ [][FrequencyToNoteCall]_vars

(***************************************************************************)
(* The first snapshot of the class (lines 3-467): the microphone life      *)
(* cycle with a MediaRecorder, the analysis loop on the single pitch of    *)
(* detectPitch, recording (toggleRecording / startRecording /              *)
(* stopRecording / processRecording) and playback (playRecording /         *)
(* stopPlayback and the 'ended' event of a buffer source).                 *)
(* The recorded chunks, the recording timer and the messages are not       *)
(* modelled.  The calls of the Web APIs succeed, except getUserMedia and   *)
(* decodeAudioData, whose failure the code catches, and                    *)
(* MediaRecorder.stop() on an inactive recorder, which throws              *)
(* InvalidStateError in some browsers and returns in others.               *)
(***************************************************************************)
MaxRecorders == 2
MaxSources == 2
MaxProcessing == 1

\* What only the pipeline of the second snapshot writes.
pipeline == <<now, pickedPeaks, returnedFundamentals, smoothingBuffer, detectedFrequencies,
              noteHistory, historyStartTime, waveformHistory, activeNotes,
              allDetectedNotes, detectedChords, lastChordTime, tickLog>>

\* Bins 339, 340, 341 rise by one: bin 340 is the loudest of the search
\* range and its interpolation denominator is 0.
FrameRising == (339 :> 19) @@ (340 :> 20) @@ (341 :> 21)

RecFrames == {QuietFrame, FrameA4, FrameRising}

\* this.audioContext = new AudioContext(): no source belongs to
\* this.audioContext any more.
NewContext(srcs) == [k \in 1..Len(srcs) |-> [srcs[k] EXCEPT !.current = FALSE]]

\* this.audioContext.close(): its playing sources fall silent.
CloseContext(srcs) ==
    [k \in 1..Len(srcs) |->
        IF srcs[k].current /\ srcs[k].state = "playing"
        THEN [srcs[k] EXCEPT !.state = "closed"] ELSE srcs[k]]

\* if (!this.audioContext || this.audioContext.state === 'closed')
NoContext == audioContext \in {"none", "closed"}

\* What frequencyToNote(frequency) gives analyze for the frequency
\* detectPitch returned, a positive number that may be Infinity.
NoteOfPitch(pitch) ==
    IF pitch.kind = "finite"
    THEN LET note == FrequencyToNoteResult(pitch.value)
         IN  [cents |-> note.cents, targetFrequency |-> note.targetFrequency]
    ELSE [cents |-> NaN, targetFrequency |-> PositiveInfinity]

\* The body of analyze() of the first snapshot past the test of isRunning,
\* up to requestAnimationFrame.
RecAnalyzeBody(frame) ==
    \E pitch \in {SinglePitch(frame)} :
        /\ dataArray' = frame
        /\ detectedPitch' = pitch
        /\ IF GreaterThan(pitch, 0)
           THEN \E note \in {NoteOfPitch(pitch)} :
                    /\ targetFrequency' = note.targetFrequency
                    /\ currentCents' = note.cents
                    /\ pitchHint' = PitchHint(note.cents)
           ELSE /\ pitchHint' = NoHint
                /\ UNCHANGED <<targetFrequency, currentCents>>
        /\ UNCHANGED <<pipeline, mappedNote>>

\* A click on the start button while !isRunning: start() creates an audio
\* context and suspends at `await getUserMedia(...)`.
RecClickStart ==
    /\ ~isRunning
    /\ pendingStarts < MaxPending
    /\ pendingStarts' = pendingStarts + 1
    /\ audioContext' = "running"
    /\ sources' = NewContext(sources)
    /\ UNCHANGED lastCall
    /\ UNCHANGED <<isRunning, scheduled, detection, standalone, display, stream, tracksLive,
                   recording, isPlaying, sourceNode>>

\* getUserMedia resolves: the rest of start() keeps the stream, creates the
\* MediaRecorder, sets isRunning, enables the record button and calls
\* analyze(), which runs one pass and requests the next.
RecStartResolved ==
    /\ pendingStarts > 0
    /\ scheduled < MaxScheduled
    /\ Len(recorders) < MaxRecorders
    /\ pendingStarts' = pendingStarts - 1
    /\ stream' = TRUE
    /\ tracksLive' = TRUE
    /\ recorders' = Append(recorders, "inactive")
    /\ mediaRecorder' = Len(recorders) + 1
    /\ isRunning' = TRUE
    /\ recordBtnDisabled' = FALSE
    /\ scheduled' = scheduled + 1
    /\ \E frame \in RecFrames : RecAnalyzeBody(frame)
    /\ UNCHANGED <<lastCall, audioContext, isRecording, processing, decoding, audioBuffer,
                   playbackBtnDisabled, playback>>

\* The mutation: isRunning is set before the await.
RecStartFailedWhileRunning ==
    /\ pendingStarts > 0
    /\ pendingStarts' = pendingStarts - 1
    /\ isRunning' = TRUE
    /\ UNCHANGED <<lastCall, scheduled, detection, standalone, display,
                   microphone, recording, playback>>

\* getUserMedia rejects: the catch block of start() only shows a message.
RecStartFailed ==
    /\ pendingStarts > 0
    /\ pendingStarts' = pendingStarts - 1
    /\ UNCHANGED <<lastCall, isRunning, scheduled, detection, standalone, display,
                   microphone, recording, playback>>

\* this.mediaRecorder.stop() on an inactive recorder throws (in some
\* browsers): the handler that called it ends there.
StopThrows(throws) == recorders[mediaRecorder] = "inactive" /\ throws

\* this.mediaRecorder.stop(), when it returns: the recorders, and the number
\* of 'stop' events it queues (onstop calls processRecording).
StoppedRecorders ==
    IF recorders[mediaRecorder] = "recording"
    THEN [recorders EXCEPT ![mediaRecorder] = "inactive"] ELSE recorders

StopEvents == IF recorders[mediaRecorder] = "recording" THEN 1 ELSE 0

\* The mutation: stop() without `if (this.isRecording) this.stopRecording()`.
RecClickStopKeepsRecording ==
    /\ isRunning
    /\ tracksLive' = StopTracks(stream, tracksLive)
    /\ audioContext' = "closed"
    /\ sources' = CloseContext(sources)
    /\ isRunning' = FALSE
    /\ recordBtnDisabled' = TRUE
    /\ pitchHint' = NoHint
    /\ UNCHANGED lastCall
    /\ UNCHANGED <<pendingStarts, scheduled, detection, standalone, currentCents, stream,
                   mediaRecorder, recorders, isRecording, processing, decoding,
                   audioBuffer, playbackBtnDisabled, isPlaying, sourceNode>>

\* A click on the start button while isRunning: toggleMicrophone calls
\* stop().
RecClickStop ==
    /\ isRunning
    /\ \E throws \in BOOLEAN :
          IF isRecording /\ StopThrows(throws)
          THEN UNCHANGED vars
          ELSE /\ recorders' = IF isRecording THEN StoppedRecorders ELSE recorders
               /\ processing' = processing + (IF isRecording THEN StopEvents ELSE 0)
               /\ isRecording' = FALSE
               /\ tracksLive' = StopTracks(stream, tracksLive)
               /\ audioContext' = "closed"
               /\ sources' = CloseContext(sources)
               /\ isRunning' = FALSE
               /\ recordBtnDisabled' = TRUE
               /\ pitchHint' = NoHint
               /\ UNCHANGED lastCall
               /\ UNCHANGED <<pendingStarts, scheduled, detection, standalone, currentCents,
                              stream, mediaRecorder, decoding, audioBuffer,
                              playbackBtnDisabled, isPlaying, sourceNode>>

\* A click on the record button (it is enabled): toggleRecording calls
\* startRecording() or stopRecording().
RecClickRecord ==
    /\ ~recordBtnDisabled
    /\ IF ~isRecording
       THEN /\ processing + decoding < MaxProcessing
            /\ IF recorders[mediaRecorder] = "inactive"
               THEN /\ recorders' = [recorders EXCEPT ![mediaRecorder] = "recording"]
                    /\ isRecording' = TRUE
                    /\ playbackBtnDisabled' = TRUE
               ELSE UNCHANGED <<recorders, isRecording, playbackBtnDisabled>>
            /\ UNCHANGED processing
       ELSE \E throws \in BOOLEAN :
                IF StopThrows(throws)
                THEN UNCHANGED <<recorders, isRecording, playbackBtnDisabled, processing>>
                ELSE /\ recorders' = StoppedRecorders
                     /\ processing' = processing + StopEvents
                     /\ isRecording' = FALSE
                     /\ UNCHANGED playbackBtnDisabled
    /\ UNCHANGED <<lastCall, isRunning, pendingStarts, scheduled, detection, standalone, display,
                   microphone, mediaRecorder, recordBtnDisabled, decoding, audioBuffer,
                   playback>>

\* The 'stop' event of a recorder: processRecording() runs up to
\* `await this.audioContext.decodeAudioData(...)`.
ProcessRecording ==
    /\ processing > 0
    /\ processing' = processing - 1
    /\ decoding' = decoding + 1
    /\ audioContext' = "running"
    /\ sources' = IF NoContext THEN NewContext(sources) ELSE sources
    /\ UNCHANGED <<lastCall, isRunning, pendingStarts, scheduled, detection, standalone, display,
                   stream, tracksLive, mediaRecorder, recorders, isRecording,
                   recordBtnDisabled, audioBuffer, playbackBtnDisabled, isPlaying,
                   sourceNode>>

\* decodeAudioData resolves: applyAutotune() enables the playback button.
DecodeResolved ==
    /\ decoding > 0
    /\ decoding' = decoding - 1
    /\ audioBuffer' = TRUE
    /\ playbackBtnDisabled' = FALSE
    /\ UNCHANGED <<lastCall, isRunning, pendingStarts, scheduled, detection, standalone, display,
                   microphone, mediaRecorder, recorders, isRecording, recordBtnDisabled,
                   processing, playback>>

\* decodeAudioData rejects: the catch block only shows a message.
DecodeRejected ==
    /\ decoding > 0
    /\ decoding' = decoding - 1
    /\ UNCHANGED <<lastCall, isRunning, pendingStarts, scheduled, detection, standalone, display,
                   microphone, mediaRecorder, recorders, isRecording, recordBtnDisabled,
                   processing, audioBuffer, playbackBtnDisabled, playback>>

\* stopPlayback(): the sources after this.sourceNode.stop().
StoppedSources ==
    IF sourceNode # 0 /\ sources[sourceNode].state \in {"playing", "closed"}
    THEN [sources EXCEPT ![sourceNode].state = "stopped"] ELSE sources

\* A click on the playback button (it is enabled): playRecording().
RecClickPlayback ==
    /\ ~playbackBtnDisabled
    /\ IF ~audioBuffer
       THEN UNCHANGED <<audioContext, playback>>
       ELSE IF isPlaying
       THEN /\ sources' = StoppedSources
            /\ sourceNode' = 0
            /\ isPlaying' = FALSE
            /\ UNCHANGED audioContext
       ELSE /\ Len(sources) < MaxSources
            /\ audioContext' = "running"
            /\ sources' = Append(IF NoContext THEN NewContext(sources) ELSE sources,
                                 [state |-> "playing", current |-> TRUE])
            /\ sourceNode' = Len(sources) + 1
            /\ isPlaying' = TRUE
    /\ UNCHANGED <<lastCall, isRunning, pendingStarts, scheduled, detection, standalone, display,
                   stream, tracksLive, recording>>

\* The 'ended' event of a source whose buffer has run out or that was
\* stopped: its onended handler.
SourceEnded ==
    /\ \E k \in 1..Len(sources) :
          /\ sources[k].state \in {"playing", "stopped"}
          /\ sources' = [sources EXCEPT ![k].state = "ended"]
    /\ isPlaying' = FALSE
    /\ UNCHANGED <<lastCall, isRunning, pendingStarts, scheduled, detection, standalone, display,
                   microphone, recording, sourceNode>>

\* A requested animation frame runs analyze() while isRunning.
RecAnimationFrame ==
    /\ scheduled > 0
    /\ isRunning
    /\ \E frame \in RecFrames : RecAnalyzeBody(frame)
    /\ UNCHANGED <<lastCall, isRunning, pendingStarts, scheduled, microphone, recording, playback>>

\* Listening and recording: the start / stop and record buttons.
RecNext ==
    \/ RecClickStart
    \/ RecStartResolved
    \/ RecStartFailed
    \/ RecClickStop
    \/ RecClickRecord
    \/ ProcessRecording
    \/ DecodeResolved
    \/ DecodeRejected
    \/ RecAnimationFrame
    \/ AnimationFrameStopped

RecorderSpec == Init /\ [][RecNext]_vars

\* The same with the playback button.
PlaybackNext ==
    \/ RecClickStart
    \/ RecStartResolved
    \/ RecStartFailed
    \/ RecClickStop
    \/ RecClickRecord
    \/ ProcessRecording
    \/ DecodeResolved
    \/ DecodeRejected
    \/ RecAnimationFrame
    \/ AnimationFrameStopped
    \/ RecClickPlayback
    \/ SourceEnded

PlaybackSpec == Init /\ [][PlaybackNext]_vars

(***************************************************************************)
(* updatePitchDeviation on its own, on every integer cents value of the    *)
(* pitch meter.                                                            *)
(***************************************************************************)
\* -50 to +50 cents
HintCents == -50..50

UpdatePitchDeviationCall ==
    /\ \E cents \in HintCents :
          /\ currentCents' = Finite(cents)
          /\ pitchHint' = PitchHint(Finite(cents))
    /\ UNCHANGED <<lastCall, isRunning, pendingStarts, scheduled, detection, standalone,
                   microphone, recording, playback>>

HintSpec == Init /\ [][UpdatePitchDeviationCall]_vars

(***************************************************************************)
(* Properties.  tickLog[k] is pass k of analyze: its time, the            *)
(* fundamentals of its own frame and their MIDI notes (observed), the MIDI *)
(* notes it                                                                *)
(* displayed, put in activeNotes and appended to noteHistory (reported),   *)
(* and, when it called detectChord, the sorted MIDI notes, the chord name  *)
(* and whether a ChordEvent was appended (chord).                          *)
(***************************************************************************)
Ticks == 1..Len(tickLog)

ChordTicks == {k \in Ticks : Len(tickLog[k].chord) = 1}

AppendTicks == {k \in ChordTicks : tickLog[k].chord[1].appended}

ObservedEver == UNION {tickLog[k].observed : k \in Ticks}

\* Ticks i..j are a maximal run of passes in which m is observed, and m is
\* not observed in pass j + 1.
EndedRun(m, i, j) ==
    /\ i <= j
    /\ j < Len(tickLog)
    /\ \A k \in i..j : m \in tickLog[k].observed
    /\ i > 1 => m \notin tickLog[i - 1].observed
    /\ m \notin tickLog[j + 1].observed

\* C1: a MIDI note observed continuously for less than minNoteDuration and
\* then no longer observed is reported by none of the passes of that run.
C1_Debounce ==
    \A m \in ObservedEver : \A i, j \in Ticks :
        (EndedRun(m, i, j) /\ tickLog[j].time - tickLog[i].time < MinNoteDuration)
            => \A k \in i..j : m \notin tickLog[k].reported

\* C2: every note a pass reports was observed in that pass's own frame.
C2_ReportedObserved ==
    \A k \in Ticks : tickLog[k].reported \subseteq tickLog[k].observed

\* C3: whenever the visualizer is stopped (isRunning is false), all the
\* detection state equals its initial value.
C3_StopClears ==
    ~isRunning =>
        /\ smoothingBuffer = <<>>
        /\ noteHistory = <<>>
        /\ waveformHistory = <<>>
        /\ activeNotes = {}
        /\ allDetectedNotes = {}
        /\ detectedChords = <<>>
        /\ lastChordTime = 0
        /\ historyStartTime = 0

\* C4: at most one pass of analyze is scheduled at any time.
C4_OneLoop == scheduled <= 1

PitchClass(midiNote) == <<NoteStrings[(midiNote % 12) + 1]>>

IntervalsOf(midis) == [k \in 1..(Len(midis) - 1) |-> (midis[k + 1] - midis[1]) % 12]

\* C5: a ChordEvent appended for three notes whose intervals from the lowest
\* are (4,7) is named '<pitch class of the lowest> Major', and for (3,7)
\* '<pitch class of the lowest> Minor', without an octave digit.
C5_ChordNames ==
    \A k \in AppendTicks :
        LET c == tickLog[k].chord[1] IN
        /\ IntervalsOf(c.midis) = <<4, 7>> => c.name = PitchClass(c.midis[1]) \o <<" Major">>
        /\ IntervalsOf(c.midis) = <<3, 7>> => c.name = PitchClass(c.midis[1]) \o <<" Minor">>

\* Any two ChordEvents were appended at least 500 ms apart.
AppendsApart ==
    \A i, j \in AppendTicks : i < j => tickLog[j].time - tickLog[i].time >= ChordInterval

\* The chord-eligible passes i < j have identical notes and are less than
\* 500 ms apart.
IdenticalWithinLimit(i, j) ==
    /\ i < j
    /\ tickLog[i].chord[1].midis = tickLog[j].chord[1].midis
    /\ tickLog[j].time - tickLog[i].time < ChordInterval

AppendedBy(i, j) == Cardinality({i, j} \cap AppendTicks)

LastAppendBefore(j) == CHOOSE i \in AppendTicks : i < j /\ \A h \in AppendTicks : h < j => h <= i

\* C7: a chord-eligible pass at least 500 ms after the last appended
\* ChordEvent, with another chord name than that event's, appends one.
C7_LimitFromLastEmission ==
    \A j \in ChordTicks :
        (\E i \in AppendTicks : i < j) =>
            LET i == LastAppendBefore(j) IN
            (/\ tickLog[j].time - tickLog[i].time >= ChordInterval
             /\ tickLog[j].chord[1].name # tickLog[i].chord[1].name)
                => j \in AppendTicks

\* C8: no two adjacent entries of detectedChords have the same name.
C8_NoAdjacentDuplicates ==
    \A k \in 1..(Len(detectedChords) - 1) :
        detectedChords[k].name # detectedChords[k + 1].name

\* A pass past the rate limit found the name of the last entry again and
\* appended nothing, and a later pass appended another chord.
C8_Witness ==
    /\ Len(detectedChords) >= 2
    /\ \E i, j \in AppendTicks, k \in ChordTicks \ AppendTicks :
          /\ i < k /\ k < j
          /\ tickLog[k].chord[1].name = tickLog[i].chord[1].name
          /\ tickLog[k].time - tickLog[i].time >= ChordInterval

\* The ratio pf / ff is within the tolerance of an integer in [2,8].
NearHarmonic(pf, ff) ==
    \E h \in 2..8 : ToleranceDivisor * Abs(pf - h * ff) < ff

Returned == {returnedFundamentals[k] : k \in 1..Len(returnedFundamentals)}

\* The frame holds exactly three peaks, at bins b, 2b and 3b, of decreasing
\* amplitude.
OvertoneFrame(b) ==
    /\ DOMAIN dataArray = {b, 2 * b, 3 * b}
    /\ dataArray[b] > dataArray[2 * b]
    /\ dataArray[2 * b] > dataArray[3 * b]
    /\ dataArray[3 * b] >= Threshold

C10_SubHarmonicReplacement ==
    \A p, f \in Returned :
        f.amplitude > p.amplitude => ~NearHarmonic(f.frequency, p.frequency)

Picked == {pickedPeaks[k] : k \in 1..Len(pickedPeaks)}

\* Peak p is a harmonic of a returned fundamental that is at least as loud.
RejectedAsHarmonic(p) ==
    \E f \in Returned : f.amplitude >= p.amplitude /\ NearHarmonic(p.frequency, f.frequency)

\* C16: at most MaxFundamentals fundamentals are returned, and the scan of
\* the peaks, loudest first, stops at the cap: a peak that is not returned
\* is the harmonic of a returned fundamental, or the cap was reached by
\* peaks at least as loud.
C16_Cap ==
    /\ Len(returnedFundamentals) <= MaxFundamentals
    /\ Returned \subseteq Picked
    /\ \A p \in Picked \ Returned :
           \/ RejectedAsHarmonic(p)
           \/ /\ Len(returnedFundamentals) = MaxFundamentals
              /\ \A f \in Returned : f.amplitude >= p.amplitude

\* A frame with more than MaxFundamentals peaks that are no harmonics of a
\* louder peak was analysed, and exactly MaxFundamentals were returned.
C16_Witness ==
    /\ Cardinality({p \in Picked :
                       \A f \in Picked : f.amplitude > p.amplitude
                                             => ~NearHarmonic(p.frequency, f.frequency)})
           > MaxFundamentals
    /\ Len(returnedFundamentals) = MaxFundamentals

\* The bins of the frequency search range.
SearchRange == MinIndex..(MaxIndexBound - 1)

PickedBins == {pickedPeaks[k].index : k \in 1..Len(pickedPeaks)}

\* Bin i is strictly greater than each of its 2W neighbours.
StrictlyGreatest(i) ==
    \A j \in ((i - PeakWindow)..(i + PeakWindow)) \ {i} :
        DataAt(dataArray, j) < DataAt(dataArray, i)

\* C11: the bins accepted as peaks are exactly the bins of the search range
\* whose magnitude is at least the threshold and strictly greater than each
\* of the 2W neighbouring bins, the bins within W of either end of the
\* range included.
C11_PeakPicking ==
    PickedBins = {i \in SearchRange : DataAt(dataArray, i) >= Threshold /\ StrictlyGreatest(i)}

\* The interpolation denominator 2 * y2 - y1 - y3 at bin i is zero.
ZeroDenominator(i) ==
    2 * DataAt(dataArray, i) - DataAt(dataArray, i - 1) - DataAt(dataArray, i + 1) = 0

\* C12: every frequency pitch detection returns is finite; where the
\* interpolation denominator is zero at the chosen bin, the frequency is the
\* bin centre, in detectPitch (first snapshot) and in detectAllFrequencies.
C12_FiniteFrequencies ==
    /\ detectedPitch.kind = "finite"
    /\ (detectedPitch.maxIdx > 0 /\ DataAt(dataArray, detectedPitch.maxIdx) >= Threshold
            /\ ZeroDenominator(detectedPitch.maxIdx))
           => detectedPitch.value = detectedPitch.maxIdx * BinWidth
    /\ \A k \in 1..Len(pickedPeaks) :
           ZeroDenominator(pickedPeaks[k].index)
               => pickedPeaks[k].frequency = pickedPeaks[k].index * BinWidth

Min(a, b) == IF a < b THEN a ELSE b

\* C13: after n passes the smoothing buffer holds the fundamental sequences
\* of the most recent min(n, S) passes, those of a pass with no fundamental
\* included.
C13_SmoothingWindow ==
    LET n == Len(tickLog)
        m == Min(n, SmoothingBufferSize)
    IN  smoothingBuffer = [k \in 1..m |-> tickLog[n - m + k].fundamentals]

\* The number of buffered frames that hold a fundamental of semitone n.
FramesWith(n) ==
    Cardinality({j \in 1..Len(smoothingBuffer) :
                    \E k \in 1..Len(smoothingBuffer[j]) :
                        RoundedNote(smoothingBuffer[j][k].frequency) = n})

\* C14: the confidence of every smoothed note (a percentage) is the number
\* of buffered frames in which its MIDI note occurs, over S, and is at most
\* 100 %.
C14_Confidence ==
    \A k \in 1..Len(detectedFrequencies) :
        LET g == detectedFrequencies[k] IN
        /\ g.confidence = FloorDiv(100 * FramesWith(RoundedNote(g.frequency)), SmoothingBufferSize)
        /\ g.confidence >= 0
        /\ g.confidence <= 100

\* C17: for every frequency f > 0, the cents frequencyToNote returns is an
\* integer from -50 to 50.
C17_CentsRange ==
    mappedNote.frequency > 0 =>
        /\ mappedNote.cents.kind = "finite"
        /\ mappedNote.cents.value \in -50..50

\* A frequency whose noteNum is half-way between two semitones was mapped:
\* it rounds up, and its cents is -50.
C17_Witness ==
    /\ mappedNote.frequency > 0
    /\ NoteNum(mappedNote.frequency) % NoteScale = NoteScale \div 2
    /\ mappedNote.cents.value = -50

\* C18: the name of a mapped note is the entry (m mod 12) of the table
\* that starts at C, followed by the octave floor(m / 12) - 1; 440 Hz maps
\* to A4, MIDI note 69, 0 cents.
C18_NoteNames ==
    /\ mappedNote.frequency > 0 =>
           LET m == mappedNote.midiNote.value
           IN  mappedNote.name = <<NoteStrings[(m % 12) + 1]>> \o NumberText((m \div 12) - 1)
    /\ mappedNote.frequency = A4 * FreqScale =>
           /\ mappedNote.name = <<"A", "4">>
           /\ mappedNote.midiNote = Finite(69)
           /\ mappedNote.cents = Finite(0)

\* C19: a call of frequencyToNote with a frequency that is not positive
\* returns no midiNote, cents or name derived from NaN or Infinity, and
\* leaves targetFrequency as it was.
C19_InvalidFrequency ==
    [][mappedNote'.frequency <= 0 =>
          /\ mappedNote'.midiNote.kind = "finite"
          /\ mappedNote'.cents.kind = "finite"
          /\ mappedNote'.name # <<"NaN">>
          /\ targetFrequency' = targetFrequency]_vars

\* The passes among the last S up to pass k in whose frame m is observed.
RecentlyObserved(m, k) ==
    {h \in Ticks : k - SmoothingBufferSize < h /\ h <= k /\ m \in tickLog[h].observed}

\* C15: detectPitch returns only groups whose confidence is at least C, and
\* a pass reports no note observed in fewer than C * S of the last S frames
\* (so none observed in a single frame).
C15_MinConfidence ==
    /\ \A k \in 1..Len(detectedFrequencies) : detectedFrequencies[k].confidence >= MinConfidence
    /\ \A k \in Ticks : \A m \in tickLog[k].reported :
           100 * Cardinality(RecentlyObserved(m, k)) >= MinConfidence * SmoothingBufferSize

\* C20: after every pass, every entry of noteHistory is less than the
\* retention window older than the time of the pass.
C20_Retention ==
    \A k \in 1..Len(noteHistory) :
        (now - historyStartTime) - noteHistory[k].timestamp < MaxHistoryDuration * 1000

\* The frame of the last pass has no bin of the search range that is at or
\* above the threshold and strictly greater than its 2W neighbours.
NoPeakInFrame ==
    \A i \in SearchRange : ~(DataAt(dataArray, i) >= Threshold /\ StrictlyGreatest(i))

\* C21: a pass whose frame holds no peak at or above the threshold (an
\* all-zero frame included) completes, reports no note and leaves
\* activeNotes empty.
C21_EmptyFrame ==
    (Len(tickLog) > 0 /\ NoPeakInFrame) =>
        /\ detectedFrequencies = <<>>
        /\ tickLog[Len(tickLog)].reported = {}
        /\ activeNotes = {}

\* A pass on the all-zero frame right after a pass that reported a note.
C21_Witness ==
    /\ Len(tickLog) > 1
    /\ tickLog[Len(tickLog) - 1].reported # {}
    /\ dataArray = SilentFrame
    /\ NoPeakInFrame
    /\ activeNotes = {}

\* C22: after updatePitchDeviation(cents), cents an integer in [-50, 50],
\* the hint is 'perfect' when |cents| <= 5, 'too sharp, go lower' when
\* cents > 5 and 'too flat, go higher' when cents < -5; a positive cents
\* never shows 'too flat'.
C22_PitchHint ==
    pitchHint # NoHint =>
        /\ Abs(currentCents.value) <= 5 => pitchHint.text = "Perfect"
        /\ currentCents.value > 5 => pitchHint.text = "Too Sharp - Go Lower"
        /\ currentCents.value < -5 => pitchHint.text = "Too Flat - Go Higher"
        /\ currentCents.value > 0 => pitchHint.text # "Too Flat - Go Higher"

\* C24: whenever the visualizer is stopped, the tracks of the stream the
\* last start() obtained have been stopped.
C24_MicrophoneReleased == ~isRunning => ~tracksLive

\* The index in detectedChords of the ChordEvent pass k appended.
ChordIndex(k) == Cardinality({h \in AppendTicks : h <= k})

\* C25: the timestamps of detectedChords are non-decreasing, and each is
\* the time of its pass since historyStartTime, a chord appended by the
\* very first pass included.
C25_ChordTimestamps ==
    /\ \A k \in 1..(Len(detectedChords) - 1) :
           detectedChords[k].timestamp <= detectedChords[k + 1].timestamp
    /\ \A k \in AppendTicks :
           detectedChords[ChordIndex(k)].timestamp = tickLog[k].time - historyStartTime

\* The step is a pass of analyze in which no fundamental is detected.
QuietPass ==
    /\ Len(tickLog') = Len(tickLog) + 1
    /\ tickLog'[Len(tickLog')].fundamentals = <<>>

\* What a pass without fundamentals leaves alone, and what it does to
\* activeNotes and waveformHistory.
QuietPassEffect ==
    /\ smoothingBuffer' = smoothingBuffer
    /\ noteHistory' = noteHistory
    /\ detectedChords' = detectedChords
    /\ lastChordTime' = lastChordTime
    /\ allDetectedNotes' = allDetectedNotes
    /\ targetFrequency' = targetFrequency
    /\ currentCents' = currentCents
    /\ activeNotes' = {}
    /\ waveformHistory' =
           KeepRecent(Append(waveformHistory,
                             [timestamp |-> now' - historyStartTime',
                              amplitude |-> Volume(dataArray')]),
                      now' - historyStartTime')

\* C26, as claimed: a pass in which no fundamental is detected leaves
\* smoothingBuffer, noteHistory, detectedChords, lastChordTime and
\* allDetectedNotes unchanged, and of the detection state it changes only
\* activeNotes (cleared) and waveformHistory (one sample appended, old
\* samples pruned).
C26_QuietPassOnly ==
    [][QuietPass => (QuietPassEffect /\ historyStartTime' = historyStartTime)]_vars

\* C26, amended: as above, except that the pass also sets
\* historyStartTime, to its own time, when it was still null.
C26_QuietPass ==
    [][QuietPass =>
          /\ QuietPassEffect
          /\ historyStartTime' = IF historyStartTime = 0 THEN now' ELSE historyStartTime]_vars

\* A pass without fundamentals ran after a pass with a note: the smoothing
\* buffer and the history still hold that note, activeNotes is empty.
C26_Witness ==
    /\ Len(tickLog) > 1
    /\ tickLog[Len(tickLog)].fundamentals = <<>>
    /\ tickLog[Len(tickLog) - 1].fundamentals # <<>>
    /\ smoothingBuffer # <<>>
    /\ noteHistory # <<>>
    /\ activeNotes = {}

\* The buffer sources that were started and have neither ended nor been
\* stopped, and those of them that sound (their context is not closed).
Started == {k \in 1..Len(sources) : sources[k].state \in {"playing", "closed"}}

Playing == {k \in 1..Len(sources) : sources[k].state = "playing"}

\* C23: isPlaying is true exactly when a started source has neither ended
\* nor been stopped, and at most one source is playing.
C23_Playback ==
    /\ isPlaying <=> Started # {}
    /\ Cardinality(Playing) <= 1

\* C27: recording is in progress only while listening.
C27_RecordingWhileRunning == isRecording => isRunning

\* A recording is in progress on the recorder of the current stream.
C27_Witness ==
    /\ isRecording
    /\ isRunning
    /\ recorders[mediaRecorder] = "recording"

\* The step ends a pending start() without a stream: no MediaRecorder was
\* created.
FailedStart ==
    /\ pendingStarts' = pendingStarts - 1
    /\ recorders' = recorders

\* C28: a start() that fails leaves isRunning, the scheduled passes and
\* the record button as they were; as long as no start() has succeeded,
\* isRunning is false (so that a click on the start button calls start()),
\* no pass is scheduled and the record button is disabled.
C28_FailedStart ==
    /\ [](Len(recorders) = 0 => (~isRunning /\ scheduled = 0 /\ recordBtnDisabled))
    /\ [][FailedStart =>
             /\ isRunning' = isRunning
             /\ scheduled' = scheduled
             /\ recordBtnDisabled' = recordBtnDisabled
             /\ dataArray' = dataArray]_vars

\* Every start() so far has failed: an audio context was created, no
\* start() is pending and no stream was ever delivered.
C28_Witness ==
    /\ audioContext = "running"
    /\ pendingStarts = 0
    /\ Len(recorders) = 0
    /\ ~isRunning
    /\ recordBtnDisabled

\* The step runs a requested callback while isRunning is false.
StoppedCallback ==
    /\ ~isRunning
    /\ scheduled' < scheduled

\* C29: a callback that runs while isRunning is false reads no audio data,
\* changes no detection state and requests no further callback; and no
\* pass of analyze runs from a call of stop() to the next call of start().
C29_StoppedLoop ==
    /\ [][StoppedCallback =>
             /\ detection' = detection
             /\ scheduled' = scheduled - 1]_vars
    /\ [][lastCall = "stop" => tickLog' = tickLog]_vars

\* The chord name is the power-chord label '<root>5 (Power)'.
IsPowerChord(name) ==
    /\ Len(name) >= 2
    /\ SubSeq(name, Len(name) - 1, Len(name)) = <<"5", " (Power)">>

\* C30: detectChord is called with three notes or more, so with two
\* intervals or more, and no chord it names or appends is a power chord.
C30_NoPowerChord ==
    /\ \A k \in ChordTicks :
           LET c == tickLog[k].chord[1] IN
           /\ Len(c.midis) >= 3
           /\ Len(IntervalsOf(c.midis)) >= 2
           /\ ~IsPowerChord(c.name)
    /\ \A k \in 1..Len(detectedChords) : ~IsPowerChord(detectedChords[k].name)

\* A chord was appended for notes with a fifth above the lowest.
C30_Witness ==
    \E k \in AppendTicks :
        LET c == tickLog[k].chord[1] IN
        /\ \E i \in 1..(Len(c.midis) - 1) : IntervalsOf(c.midis)[i] = 7
        /\ Len(detectedChords) >= 1

====
